---- MODULE Spec2Model ----
(***************************************************************************)
(* A model of the ADC syscall driver capsules of capsules/src/adc.rs:      *)
(* AdcDedicated (single owner, single / continuous / buffered sampling     *)
(* over three kernel sample buffers) and AdcVirtualized (single samples    *)
(* shared between processes).                                              *)
(*                                                                         *)
(* Every entry point of a capsule (a syscall or a hardware callback) runs  *)
(* to completion, so each is one action.  A handler is an operator from    *)
(* the capsule's state, held in a record, to its state on return; the      *)
(* outcome of every call into the ADC hardware (accepted or rejected) is   *)
(* an input of the action.                                                 *)
(*                                                                         *)
(* usize values are 32 bits wide.  A value v is represented by the integer *)
(* congruent to it modulo 2^32 in -2^31 .. 2^31 - 1, so that + and - on    *)
(* representatives are the wrapping operations; a negative representative  *)
(* stands for a value of 2^31 or more.                                     *)
(***************************************************************************)
EXTENDS Integers, Sequences, FiniteSets, TLC

\* ------------------------------------------------------------------ bounds
NumProcs == 2          \* processes that may call the driver
NumChannels == 2       \* length of the channel list given to AdcDedicated
NumDrivers == 2        \* length of the driver list given to AdcVirtualized
MaxOps == 2            \* sampling operations started in one behaviour
MaxAllows == 2         \* allow calls made in one behaviour
MaxUpcalls == 2        \* opUpcalls counts up to this value and stays there

\* ------------------------------------------------------- program constants
BufCap == 128          \* ADC_BUFFER1..3: [u16; 128]
NoMode == -1
SingleSample == 0
ContinuousSample == 1
SingleBuffer == 2
ContinuousBuffer == 3
None == 0              \* an empty TakeCell / OptionalCell

Procs == 1..NumProcs
Slots == 1..3
Samples == {5, 1023}   \* raw sample values the hardware may report

\* A ReadWriteProcessBuffer: its address and its length in bytes.  The
\* default (null) buffer has address 0 and length 0.
NullSlice == [ptr |-> 0, len |-> 0]
UserSlices ==
  { [ptr |-> 1, len |-> 101],            \* 50 samples and an odd byte
    [ptr |-> 2, len |-> 2 * BufCap],     \* exactly one kernel buffer
    [ptr |-> 3, len |-> 4 * BufCap],     \* exactly two kernel buffers
    [ptr |-> 4, len |-> 600] }           \* more than two kernel buffers
Slices == UserSlices \cup {NullSlice}

Min(a, b) == IF a <= b THEN a ELSE b
Max(a, b) == IF a >= b THEN a ELSE b

\* Unsigned comparison and minimum on representatives.
ULess(a, b) == IF (a < 0) = (b < 0) THEN a < b ELSE b < 0
UMin(a, b) == IF ULess(b, a) THEN b ELSE a

\* ------------------------------------------------------------------- state
VARIABLES
  active, mode, appid, channel,     \* AdcDedicated: ADC state and owner
  adc_buf1, adc_buf2, adc_buf3,     \* AdcDedicated: the three pool positions
  apps,                             \* AdcDedicated: Grant<App>
  hw,                               \* the ADC hardware behind hil::adc
  lost,                             \* kernel buffers dropped by the capsule
  wrapping, panicked,               \* arithmetic overflow: build and outcome
  nops, nallows,                    \* operations started, allow calls made
  armed, opUpcalls,                 \* about the operation in progress
  alive,                            \* processes whose grant can be entered
  current_app, vapps,               \* AdcVirtualized
  vhw                               \* its channel drivers

dvars == <<active, mode, appid, channel, adc_buf1, adc_buf2, adc_buf3, apps,
           hw, lost, wrapping, panicked, armed, opUpcalls, nops, nallows>>
vvars == <<current_app, vapps, vhw>>
vars == <<dvars, alive, vvars>>

\* impl Default for App
AppDefault ==
  [ app_buf1 |-> NullSlice, app_buf2 |-> NullSlice, app_buf_offset |-> 0,
    samples_remaining |-> 0, samples_outstanding |-> 0,
    next_samples_outstanding |-> 0, using_app_buf1 |-> TRUE ]

\* What an entry point does to the outside: what it returns, the upcall it
\* schedules, the hardware stop it asks for.  It is part of the record a
\* handler yields and not of the capsule's state.
NoUpcall == <<>>
Ev ==
  [ admitted |-> FALSE, ret |-> "NONE",
    upcall |-> NoUpcall,     \* <<process, mode tag, arg2, arg3>> if scheduled
    hwstop |-> FALSE,        \* adc.stop_sampling() was called
    slice |-> NullSlice,     \* the buffer allow_readwrite hands back
    delivered |-> 0,         \* samples_ready: its length argument
    copied |-> 0,            \* samples_ready: samples written to the app buffer
    src |-> None ]           \* samples_ready: the kernel buffer copied from

\* The capsule's state as one record, the form the handlers work on.  ovf
\* records that an arithmetic operation of the handler overflowed.
Cur ==
  [ active |-> active, mode |-> mode, appid |-> appid, channel |-> channel,
    adc_buf1 |-> adc_buf1, adc_buf2 |-> adc_buf2, adc_buf3 |-> adc_buf3,
    apps |-> apps, hw |-> hw, lost |-> lost,
    ovf |-> FALSE, ev |-> Ev ]

Ret(s, code) == [s EXCEPT !.ev.ret = code]

\* Grant::enter(id, ..) succeeds exactly for a live process.
CanEnter(id) == id \in alive

\* ------------------------------------------------------------- buffer pool
\* replace_buffer without the shift of the displaced buffer
replace_buffer_noshift(s, buf) == [s EXCEPT !.adc_buf3 = buf]

\* replace_buffer that moves the buffer found in the last position to
\* position 1 if that is empty, else to position 2
replace_buffer_front(s, buf) ==
  IF s.adc_buf3 = None
  THEN [s EXCEPT !.adc_buf3 = buf]
  ELSE LET temp == s.adc_buf3
           s1 == [s EXCEPT !.adc_buf3 = buf]
       IN IF s1.adc_buf1 = None
          THEN [s1 EXCEPT !.adc_buf1 = temp]
          ELSE [s1 EXCEPT !.adc_buf2 = temp,
                          !.lost = @ \cup ({s1.adc_buf2} \ {None})]

\* replace_buffer that always moves the buffer found in the last position
\* to position 2
replace_buffer_second(s, buf) ==
  IF s.adc_buf3 = None
  THEN [s EXCEPT !.adc_buf3 = buf]
  ELSE [s EXCEPT !.adc_buf3 = buf, !.adc_buf2 = s.adc_buf3,
                 !.lost = @ \cup ({s.adc_buf2} \ {None})]

\* fn replace_buffer: always insert in the last position, moving the buffer
\* found there to position 2 if that is empty, else to position 1.
\* TakeCell::replace drops whatever the cell held.
replace_buffer(s, buf) ==
  IF s.adc_buf3 = None
  THEN [s EXCEPT !.adc_buf3 = buf]
  ELSE LET temp == s.adc_buf3
           s1 == [s EXCEPT !.adc_buf3 = buf]
       IN IF s1.adc_buf2 = None
          THEN [s1 EXCEPT !.adc_buf2 = temp]
          ELSE [s1 EXCEPT !.adc_buf1 = temp,
                          !.lost = @ \cup ({s1.adc_buf1} \ {None})]

\* take_buffer that always empties the first position
take_buffer_first(s) == [s EXCEPT !.adc_buf1 = None]

\* take_pos that looks at the last position first
take_pos_last(s) ==
  IF s.adc_buf3 # None THEN 3
  ELSE IF s.adc_buf2 # None THEN 2
  ELSE IF s.adc_buf1 # None THEN 1
  ELSE 0

\* fn take_and_map_buffer: the position it takes from (0: the pool is
\* empty and the closure does not run), the buffer there, the pool after.
take_pos(s) ==
  IF s.adc_buf1 # None THEN 1
  ELSE IF s.adc_buf2 # None THEN 2
  ELSE IF s.adc_buf3 # None THEN 3
  ELSE 0

taken_buffer(s) ==
  IF take_pos(s) = 1 THEN s.adc_buf1
  ELSE IF take_pos(s) = 2 THEN s.adc_buf2
  ELSE s.adc_buf3

take_buffer(s) ==
  IF take_pos(s) = 1 THEN [s EXCEPT !.adc_buf1 = None]
  ELSE IF take_pos(s) = 2 THEN [s EXCEPT !.adc_buf2 = None]
  ELSE [s EXCEPT !.adc_buf3 = None]

\* ---------------------------------------------------------------- hardware
\* hw.mode: "off", "single", "cont" or "hs" (high speed); hw.bufs: the
\* kernel buffers it holds, each with the number of samples asked for, in
\* the order it will fill them.  Every request may be accepted or rejected.

\* hil::adc::Adc::sample / sample_continuous, accepted
hw_sample(s, m) == [s EXCEPT !.hw.mode = m]

\* hil::adc::AdcHighSpeed::sample_highspeed, accepted
hw_sample_highspeed(s, buf1, len1, buf2, len2) ==
  [s EXCEPT !.hw.mode = "hs",
            !.hw.bufs = @ \o << [slot |-> buf1, len |-> len1],
                                [slot |-> buf2, len |-> len2] >>]

\* hil::adc::AdcHighSpeed::provide_buffer, accepted
hw_provide_buffer(s, buf, len) ==
  [s EXCEPT !.hw.bufs = Append(@, [slot |-> buf, len |-> len])]

\* hil::adc::Adc::stop_sampling
hw_stop_sampling(s, ok) ==
  [s EXCEPT !.hw.mode = IF ok THEN "off" ELSE @, !.ev.hwstop = TRUE]

\* hil::adc::AdcHighSpeed::retrieve_buffers: Err while the hardware is
\* sampling; otherwise Ok, and the hardware gives up every buffer it holds
hw_retrieve_ok(s) == s.hw.mode = "off"
hw_retrieve_buffers(s) == [s EXCEPT !.hw.bufs = <<>>]

\* reclaim_buffers that stores the first buffer only
reclaim_first_only(s) ==
  IF ~hw_retrieve_ok(s) THEN s
  ELSE LET bufs == s.hw.bufs
           s1 == hw_retrieve_buffers(s)
       IN IF Len(bufs) = 0 THEN s1 ELSE replace_buffer(s1, bufs[1].slot)

\* "reclaim buffers": retrieve_buffers and, if Ok((buf1, buf2)), store each
\* buffer that is there with replace_buffer; on Err nothing changes.
reclaim_buffers(s) ==
  IF ~hw_retrieve_ok(s) THEN s
  ELSE LET bufs == s.hw.bufs
           s1 == hw_retrieve_buffers(s)
       IN IF Len(bufs) = 0 THEN s1
          ELSE IF Len(bufs) = 1 THEN replace_buffer(s1, bufs[1].slot)
          ELSE replace_buffer(replace_buffer(s1, bufs[1].slot), bufs[2].slot)

\* sample_highspeed(..).map_or_else: accepted, or rejected and both buffers
\* stored again
start_highspeed(s, buf1, len1, buf2, len2, hwok) ==
  IF hwok
  THEN Ret(hw_sample_highspeed(s, buf1, len1, buf2, len2), "OK")
  ELSE Ret(replace_buffer(replace_buffer(s, buf1), buf2), "HWERR")

\* provide_buffer(..).map_err: accepted, or rejected and the buffer stored
\* again
provide_buffer(s, buf, len, hwok) ==
  IF hwok THEN hw_provide_buffer(s, buf, len) ELSE replace_buffer(s, buf)

\* ------------------------------------------------- AdcDedicated: operations
\* enter_failed that keeps the owner
enter_failed_keepowner(s) == s

\* The map_err closure of every apps.enter(..): the failure is NoSuchApp or
\* InactiveApp, and the owner is forgotten.
enter_failed(s) == [s EXCEPT !.appid = None]

\* sample that records the channel before it checks it
sample_latecheck(s, chan, hwok) ==
  IF s.active THEN Ret(s, "BUSY")
  ELSE LET s1 == [s EXCEPT !.active = TRUE, !.mode = SingleSample,
                           !.channel = chan]
       IN IF chan >= NumChannels
          THEN Ret([s1 EXCEPT !.active = FALSE, !.mode = NoMode], "INVAL")
          ELSE IF hwok
               THEN Ret(hw_sample(s1, "single"), "OK")
               ELSE Ret([s1 EXCEPT !.active = FALSE, !.mode = NoMode], "HWERR")

\* sample without the check of the active flag
sample_nobusy(s, chan, hwok) ==
  IF chan >= NumChannels THEN Ret(s, "INVAL")
  ELSE LET s1 == [s EXCEPT !.active = TRUE, !.mode = SingleSample,
                           !.channel = chan]
       IN IF hwok
          THEN Ret(hw_sample(s1, "single"), "OK")
          ELSE Ret([s1 EXCEPT !.active = FALSE, !.mode = NoMode], "HWERR")

\* fn sample
sample(s, chan, hwok) ==
  IF s.active THEN Ret(s, "BUSY")
  ELSE IF chan >= NumChannels THEN Ret(s, "INVAL")
  ELSE LET s1 == [s EXCEPT !.active = TRUE, !.mode = SingleSample,
                           !.channel = chan]
       IN IF hwok
          THEN Ret(hw_sample(s1, "single"), "OK")
          ELSE Ret([s1 EXCEPT !.active = FALSE, !.mode = NoMode], "HWERR")

\* sample_continuous that stays active when the hardware rejects the request
sample_continuous_keepactive(s, chan, hwok) ==
  IF s.active THEN Ret(s, "BUSY")
  ELSE IF chan >= NumChannels THEN Ret(s, "INVAL")
  ELSE LET s1 == [s EXCEPT !.active = TRUE, !.mode = ContinuousSample,
                           !.channel = chan]
       IN IF hwok
          THEN Ret(hw_sample(s1, "cont"), "OK")
          ELSE Ret(s1, "HWERR")

\* fn sample_continuous
sample_continuous(s, chan, hwok) ==
  IF s.active THEN Ret(s, "BUSY")
  ELSE IF chan >= NumChannels THEN Ret(s, "INVAL")
  ELSE LET s1 == [s EXCEPT !.active = TRUE, !.mode = ContinuousSample,
                           !.channel = chan]
       IN IF hwok
          THEN Ret(hw_sample(s1, "cont"), "OK")
          ELSE Ret([s1 EXCEPT !.active = FALSE, !.mode = NoMode], "HWERR")

\* start_failed without the reset of the counters
start_failed_keepcounters(s) ==
  LET s1 == [s EXCEPT !.active = FALSE, !.mode = NoMode]
  IN IF s1.appid = None \/ CanEnter(s1.appid) THEN s1 ELSE enter_failed(s1)

\* The failure path shared by sample_buffer and sample_buffer_continuous
\* ("failure, clear state").
start_failed(s) ==
  LET s1 == [s EXCEPT !.active = FALSE, !.mode = NoMode]
  IN IF s1.appid = None THEN s1
     ELSE IF CanEnter(s1.appid)
          THEN [s1 EXCEPT !.apps[s1.appid].samples_remaining = 0,
                          !.apps[s1.appid].samples_outstanding = 0]
          ELSE enter_failed(s1)

\* sample_buffer: the request lengths for an app buffer of request_len
\* samples ("determine request length").
single_len1(request_len) ==
  IF request_len <= BufCap THEN request_len ELSE BufCap

\* single_len2 without the cap at the capacity of the second buffer
single_len2_uncapped(request_len) ==
  IF request_len <= BufCap THEN 0 ELSE request_len - BufCap

single_len2(request_len) ==
  IF request_len <= BufCap THEN 0
  ELSE IF request_len <= BufCap + BufCap THEN request_len - BufCap
  ELSE BufCap

\* sample_buffer, inside the second apps.enter: take adc_buf1 and adc_buf2,
\* set the counters and start the hardware.  Returns the state with ev.ret
\* set to the closure's result.  A buffer taken from adc_buf1 is dropped
\* when adc_buf2 turns out to be empty.
single_arm(s, id, chan, app_buf_length, hwok) ==
  LET s1 == [s EXCEPT !.apps[id].app_buf_offset = 0, !.channel = chan]
  IN IF s1.adc_buf1 = None THEN Ret(s1, "BUSY")
     ELSE LET buf1 == s1.adc_buf1
              s2 == [s1 EXCEPT !.adc_buf1 = None]
          IN IF s2.adc_buf2 = None
             THEN Ret([s2 EXCEPT !.lost = @ \cup {buf1}], "BUSY")
             ELSE LET buf2 == s2.adc_buf2
                      request_len == app_buf_length \div 2
                      len1 == single_len1(request_len)
                      len2 == single_len2(request_len)
                      s3 == [s2 EXCEPT
                               !.adc_buf2 = None,
                               !.apps[id].using_app_buf1 = TRUE,
                               !.apps[id].samples_remaining =
                                   request_len - len1 - len2,
                               !.apps[id].samples_outstanding = len1 + len2]
                  IN start_highspeed(s3, buf1, len1, buf2, len2, hwok)

\* fn sample_buffer
sample_buffer(s, chan, hwok) ==
  IF s.active THEN Ret(s, "BUSY")
  ELSE IF chan >= NumChannels THEN Ret(s, "INVAL")
  ELSE IF s.appid = None THEN Ret(s, "NOMEM")
  ELSE IF ~CanEnter(s.appid) THEN Ret(enter_failed(s), "NOMEM")
  ELSE LET app_buf_length == s.apps[s.appid].app_buf1.len
       IN IF ~(app_buf_length > 0) THEN Ret(s, "NOMEM")
          ELSE LET s1 == [s EXCEPT !.active = TRUE, !.mode = SingleBuffer]
                   s2 == single_arm(s1, s1.appid, chan, app_buf_length, hwok)
               IN IF s2.ev.ret # "OK" THEN start_failed(s2) ELSE s2

\* sample_buffer_continuous, inside the second apps.enter ("determine
\* request lengths" to "begin sampling").
continuous_arm(s, id, chan, app_buf_length, next_app_buf_length, hwok) ==
  LET s1 == [s EXCEPT !.apps[id].app_buf_offset = 0, !.channel = chan]
  IN IF s1.adc_buf1 = None THEN Ret(s1, "BUSY")
     ELSE LET buf1 == s1.adc_buf1
              s2 == [s1 EXCEPT !.adc_buf1 = None]
          IN IF s2.adc_buf2 = None
             THEN Ret([s2 EXCEPT !.lost = @ \cup {buf1}], "BUSY")
             ELSE LET buf2 == s2.adc_buf2
                      samples_needed == app_buf_length \div 2
                      next_samples_needed == next_app_buf_length \div 2
                      fits1 == samples_needed <= BufCap
                      fits2 == samples_needed <= BufCap + BufCap
                      len1 == IF fits1 THEN samples_needed ELSE BufCap
                      len2 == IF fits1 THEN Min(next_samples_needed, BufCap)
                              ELSE IF fits2 THEN samples_needed - BufCap
                              ELSE BufCap
                      s3 == [s2 EXCEPT
                               !.adc_buf2 = None,
                               !.apps[id].samples_remaining =
                                   IF fits1 \/ fits2 THEN 0
                                   ELSE samples_needed - len1 - len2,
                               !.apps[id].samples_outstanding =
                                   IF fits1 THEN len1 ELSE len1 + len2,
                               !.apps[id].using_app_buf1 = TRUE]
                  IN start_highspeed(s3, buf1, len1, buf2, len2, hwok)

\* sample_buffer_continuous that asks for the first app buffer only
sample_buffer_continuous_onebuf(s, chan, hwok) ==
  IF s.active THEN Ret(s, "BUSY")
  ELSE IF chan >= NumChannels THEN Ret(s, "INVAL")
  ELSE IF s.appid = None THEN Ret(s, "NOMEM")
  ELSE IF ~CanEnter(s.appid) THEN Ret(enter_failed(s), "NOMEM")
  ELSE LET app_buf_length == s.apps[s.appid].app_buf1.len
           next_app_buf_length == s.apps[s.appid].app_buf2.len
       IN IF ~(app_buf_length > 0)
          THEN Ret(s, "NOMEM")
          ELSE LET s1 == [s EXCEPT !.active = TRUE, !.mode = ContinuousBuffer]
                   s2 == continuous_arm(s1, s1.appid, chan, app_buf_length,
                                        next_app_buf_length, hwok)
               IN IF s2.ev.ret # "OK" THEN start_failed(s2) ELSE s2

\* fn sample_buffer_continuous
sample_buffer_continuous(s, chan, hwok) ==
  IF s.active THEN Ret(s, "BUSY")
  ELSE IF chan >= NumChannels THEN Ret(s, "INVAL")
  ELSE IF s.appid = None THEN Ret(s, "NOMEM")
  ELSE IF ~CanEnter(s.appid) THEN Ret(enter_failed(s), "NOMEM")
  ELSE LET app_buf_length == s.apps[s.appid].app_buf1.len
           next_app_buf_length == s.apps[s.appid].app_buf2.len
       IN IF ~(app_buf_length > 0 /\ next_app_buf_length > 0)
          THEN Ret(s, "NOMEM")
          ELSE LET s1 == [s EXCEPT !.active = TRUE, !.mode = ContinuousBuffer]
                   s2 == continuous_arm(s1, s1.appid, chan, app_buf_length,
                                        next_app_buf_length, hwok)
               IN IF s2.ev.ret # "OK" THEN start_failed(s2) ELSE s2

\* stop_entered that leaves the active flag and the mode as they are
stop_entered_keepactive(s, id, stopOk) ==
  LET s1 == [s EXCEPT !.apps[id].app_buf_offset = 0]
      s2 == hw_stop_sampling(s1, stopOk)
  IN IF ~stopOk THEN Ret(s2, "HWERR")
     ELSE Ret(reclaim_buffers(s2),
              IF hw_retrieve_ok(s2) THEN "OK" ELSE "HWERR")

\* stop_sampling, inside apps.enter: clear the state, stop the hardware and,
\* if it did stop, reclaim its buffers.
stop_entered(s, id, stopOk) ==
  LET s1 == [s EXCEPT !.active = FALSE, !.mode = NoMode,
                      !.apps[id].app_buf_offset = 0]
      s2 == hw_stop_sampling(s1, stopOk)
  IN IF ~stopOk THEN Ret(s2, "HWERR")
     ELSE Ret(reclaim_buffers(s2),
              IF hw_retrieve_ok(s2) THEN "OK" ELSE "HWERR")

\* fn stop_sampling
stop_sampling(s, stopOk) ==
  IF ~s.active \/ s.mode = NoMode THEN Ret(s, "OK")
  ELSE IF s.appid = None THEN Ret(s, "FAIL")
  ELSE IF CanEnter(s.appid) THEN stop_entered(s, s.appid, stopOk)
  ELSE Ret(enter_failed(s), "FAIL")

\* ------------------------------------------------- AdcDedicated: callbacks
\* upcalls.schedule_upcall(0, mode, arg2, arg3) for process id
schedule_upcall(s, id, tag, arg2, arg3) ==
  [s EXCEPT !.ev.upcall = <<id, tag, arg2, arg3>>]

\* perform_callback that passes the first channel, not the one stored
perform_callback_nochannel(s, tag, value) ==
  IF s.appid = None THEN s
  ELSE IF CanEnter(s.appid)
       THEN schedule_upcall(s, s.appid, tag, 0, value)
       ELSE enter_failed(s)

\* sample_ready: "perform callback", the same in both modes.  The result
\* has an upcall exactly when calledback is set.
perform_callback(s, tag, value) ==
  IF s.appid = None THEN s
  ELSE IF CanEnter(s.appid)
       THEN schedule_upcall(s, s.appid, tag, s.channel, value)
       ELSE enter_failed(s)

\* not_calledback that clears the active flag and leaves the mode
not_calledback_keepmode(s, stopOk) ==
  hw_stop_sampling([s EXCEPT !.active = FALSE], stopOk)

\* sample_ready: "operation probably canceled", when no callback was made
not_calledback(s, stopOk) ==
  hw_stop_sampling([s EXCEPT !.active = FALSE, !.mode = NoMode], stopOk)

\* sample_ready that leaves a single-sample operation active
sample_ready_keepactive(s, value, stopOk) ==
  LET s1 == IF s.active /\ s.mode \in {SingleSample, ContinuousSample}
            THEN perform_callback(s, s.mode, value)
            ELSE s
  IN IF s1.ev.upcall = NoUpcall THEN not_calledback(s1, stopOk) ELSE s1

\* fn sample_ready (hil::adc::Client for AdcDedicated)
sample_ready(s, value, stopOk) ==
  LET s1 == IF s.active /\ s.mode = SingleSample
            THEN perform_callback(
                   [s EXCEPT !.active = FALSE, !.mode = NoMode],
                   SingleSample, value)
            ELSE IF s.active /\ s.mode = ContinuousSample
                 THEN perform_callback(s, ContinuousSample, value)
                 ELSE s
  IN IF s1.ev.upcall = NoUpcall THEN not_calledback(s1, stopOk) ELSE s1

\* samples_ready: take_and_map_buffer with the closure that requests samples
\* for the next app buffer: the state is not updated beyond
\* next_samples_outstanding.
request_next(s, id, samples_needed, provOk) ==
  IF take_pos(s) = 0 THEN s
  ELSE LET adc_buf == taken_buffer(s)
           request_len == Min(samples_needed, BufCap)
           s1 == [take_buffer(s) EXCEPT
                    !.apps[id].next_samples_outstanding = request_len]
       IN provide_buffer(s1, adc_buf, request_len, provOk)

\* samples_ready: take_and_map_buffer with the closure that requests more
\* samples for the current app buffer ("provide a new buffer and update
\* state").
request_more(s, id, provOk) ==
  IF take_pos(s) = 0 THEN s
  ELSE LET adc_buf == taken_buffer(s)
           app == s.apps[id]
           request_len == UMin(app.samples_remaining, BufCap)
           sum == app.samples_outstanding + request_len
           s1 == [take_buffer(s) EXCEPT
                    !.apps[id].samples_remaining = @ - request_len,
                    !.apps[id].samples_outstanding = sum,
                    !.ovf = @ \/ (app.samples_outstanding < 0 /\ sum >= 0)]
       IN provide_buffer(s1, adc_buf, request_len, provOk)

\* switch_app_buffer that goes on with the same app buffer
switch_app_buffer_notoggle(s, id, next_len, cur_len, provOk) ==
  LET app == s.apps[id]
      samples_needed == next_len \div 2
      s1 == [s EXCEPT
               !.apps[id].samples_remaining =
                   samples_needed - app.next_samples_outstanding,
               !.apps[id].samples_outstanding = app.next_samples_outstanding,
               !.ovf = @ \/ ULess(samples_needed, app.next_samples_outstanding)]
  IN IF s1.apps[id].samples_remaining = 0
     THEN request_next(s1, id, cur_len \div 2, provOk)
     ELSE request_more(s1, id, provOk)

\* samples_ready: "it's time to switch to the next app_buffer"; next_len
\* and cur_len are the byte lengths of the next and the current app buffer.
switch_app_buffer(s, id, next_len, cur_len, provOk) ==
  LET app == s.apps[id]
      samples_needed == next_len \div 2
      s1 == [s EXCEPT
               !.apps[id].samples_remaining =
                   samples_needed - app.next_samples_outstanding,
               !.apps[id].samples_outstanding = app.next_samples_outstanding,
               !.apps[id].using_app_buf1 = ~@,
               !.ovf = @ \/ ULess(samples_needed, app.next_samples_outstanding)]
  IN IF s1.apps[id].samples_remaining = 0
     THEN request_next(s1, id, cur_len \div 2, provOk)
     ELSE request_more(s1, id, provOk)

\* samples_ready: "provide a new buffer and length request to the ADC if
\* necessary", after samples_outstanding was decremented.
place_request(s, id, next_len, cur_len, provOk) ==
  LET app == s.apps[id]
  IN IF app.samples_remaining = 0
     THEN IF app.samples_outstanding = 0
          THEN IF s.mode = ContinuousBuffer
               THEN switch_app_buffer(s, id, next_len, cur_len, provOk)
               ELSE s
          ELSE IF s.mode = ContinuousBuffer
               THEN request_next(s, id, next_len \div 2, provOk)
               ELSE s
     ELSE request_more(s, id, provOk)

\* copy_samples that moves the offset on by length
copy_samples_halfoffset(s, id, use1, length) ==
  LET app == s.apps[id]
      skip_amt == app.app_buf_offset \div 2
      app_buf == IF use1 THEN app.app_buf1 ELSE app.app_buf2
      chunks == (app_buf.len + 1) \div 2
      src == s.adc_buf3
      n == IF src = None THEN 0
           ELSE Min(Max(chunks - skip_amt, 0), Min(BufCap, length))
  IN [s EXCEPT
        !.apps[id].app_buf_offset = @ + length,
        !.ev.delivered = length,
        !.ev.copied = n,
        !.ev.src = src]

\* samples_ready: "copy bytes to the app buffer".  The copy reads whatever
\* adc_buf3 holds now, goes over the 2-byte chunks of the app buffer from
\* chunk skip_amt on, and stops at the end of either buffer or after length
\* samples; then the offset moves on by length * 2.
copy_samples(s, id, use1, length) ==
  LET app == s.apps[id]
      skip_amt == app.app_buf_offset \div 2
      app_buf == IF use1 THEN app.app_buf1 ELSE app.app_buf2
      chunks == (app_buf.len + 1) \div 2
      src == s.adc_buf3
      n == IF src = None THEN 0
           ELSE Min(Max(chunks - skip_amt, 0), Min(BufCap, length))
  IN [s EXCEPT
        !.apps[id].app_buf_offset = @ + length * 2,
        !.ev.delivered = length,
        !.ev.copied = n,
        !.ev.src = src]

\* buffer_filled that reports the app buffer in use after the swap
buffer_filled_nextbuf(s, id, use1, stopOk) ==
  LET app == s.apps[id]
      app_buf == IF app.using_app_buf1 THEN app.app_buf1 ELSE app.app_buf2
      len_chan == ((app_buf.len \div 2) * 256) + (s.channel % 256)
      s1 == schedule_upcall(s, id, s.mode, len_chan, app_buf.ptr)
  IN IF s1.mode = SingleBuffer
     THEN reclaim_buffers(
            hw_stop_sampling(
              [s1 EXCEPT !.active = FALSE, !.mode = NoMode,
                         !.apps[id].app_buf_offset = 0],
              stopOk))
     ELSE [s1 EXCEPT !.apps[id].app_buf_offset = 0]

\* buffer_filled without the reclaim of the buffers still on loan
buffer_filled_noreclaim(s, id, use1, stopOk) ==
  LET app == s.apps[id]
      app_buf == IF use1 THEN app.app_buf1 ELSE app.app_buf2
      len_chan == ((app_buf.len \div 2) * 256) + (s.channel % 256)
      s1 == schedule_upcall(s, id, s.mode, len_chan, app_buf.ptr)
  IN IF s1.mode = SingleBuffer
     THEN hw_stop_sampling(
            [s1 EXCEPT !.active = FALSE, !.mode = NoMode,
                       !.apps[id].app_buf_offset = 0],
            stopOk)
     ELSE [s1 EXCEPT !.apps[id].app_buf_offset = 0]

\* samples_ready: "if the app_buffer is filled, perform callback"
buffer_filled(s, id, use1, stopOk) ==
  LET app == s.apps[id]
      app_buf == IF use1 THEN app.app_buf1 ELSE app.app_buf2
      len_chan == ((app_buf.len \div 2) * 256) + (s.channel % 256)
      s1 == schedule_upcall(s, id, s.mode, len_chan, app_buf.ptr)
  IN IF s1.mode = SingleBuffer
     THEN reclaim_buffers(
            hw_stop_sampling(
              [s1 EXCEPT !.active = FALSE, !.mode = NoMode,
                         !.apps[id].app_buf_offset = 0],
              stopOk))
     ELSE [s1 EXCEPT !.apps[id].app_buf_offset = 0]

\* samples_expected that calls back as soon as nothing remains to be
\* requested
samples_expected_early(s, id, length, provOk, stopOk) ==
  LET app == s.apps[id]
      use1 == app.using_app_buf1
      cur_len == IF use1 THEN app.app_buf1.len ELSE app.app_buf2.len
      next_len == IF use1 THEN app.app_buf2.len ELSE app.app_buf1.len
      s1 == [s EXCEPT
               !.apps[id].samples_outstanding = @ - length,
               !.ovf = @ \/ ULess(app.samples_outstanding, length)]
      callback == s1.apps[id].samples_remaining = 0
      s2 == place_request(s1, id, next_len, cur_len, provOk)
      s3 == copy_samples(s2, id, use1, length)
  IN IF callback THEN buffer_filled(s3, id, use1, stopOk) ELSE s3

\* samples_ready, inside apps.enter for the owner
samples_expected(s, id, length, provOk, stopOk) ==
  LET app == s.apps[id]
      use1 == app.using_app_buf1
      cur_len == IF use1 THEN app.app_buf1.len ELSE app.app_buf2.len
      next_len == IF use1 THEN app.app_buf2.len ELSE app.app_buf1.len
      s1 == [s EXCEPT
               !.apps[id].samples_outstanding = @ - length,
               !.ovf = @ \/ ULess(app.samples_outstanding, length)]
      callback == s1.apps[id].samples_remaining = 0
                  /\ s1.apps[id].samples_outstanding = 0
      s2 == place_request(s1, id, next_len, cur_len, provOk)
      s3 == copy_samples(s2, id, use1, length)
  IN IF callback THEN buffer_filled(s3, id, use1, stopOk) ELSE s3

\* unexpected_state that leaves the mode as it is
unexpected_state_keepmode(s, stopOk) ==
  LET s1 == [s EXCEPT !.active = FALSE]
      s2 == IF s1.appid = None THEN s1
            ELSE IF CanEnter(s1.appid)
                 THEN [s1 EXCEPT !.apps[s1.appid].app_buf_offset = 0]
                 ELSE enter_failed(s1)
  IN reclaim_buffers(hw_stop_sampling(s2, stopOk))

\* samples_ready: "Operation was likely canceled, or the app crashed"
unexpected_state(s, stopOk) ==
  LET s1 == [s EXCEPT !.active = FALSE, !.mode = NoMode]
      s2 == IF s1.appid = None THEN s1
            ELSE IF CanEnter(s1.appid)
                 THEN [s1 EXCEPT !.apps[s1.appid].app_buf_offset = 0]
                 ELSE enter_failed(s1)
  IN reclaim_buffers(hw_stop_sampling(s2, stopOk))

\* fn samples_ready (hil::adc::HighSpeedClient for AdcDedicated)
samples_ready(s, buf, length, provOk, stopOk) ==
  LET s1 == replace_buffer(s, buf)
  IN IF s1.active /\ (s1.mode = SingleBuffer \/ s1.mode = ContinuousBuffer)
     THEN IF s1.appid = None THEN s1
          ELSE IF CanEnter(s1.appid)
               THEN samples_expected(s1, s1.appid, length, provOk, stopOk)
               ELSE unexpected_state(enter_failed(s1), stopOk)
     ELSE unexpected_state(s1, stopOk)

\* ------------------------------------------------- AdcDedicated: syscalls
\* match_or_empty_or_nonexistant that lets every caller in
match_anyone(s, caller) == TRUE

\* match_or_empty_or_nonexistant without the check of the active flag
match_ignoring_active(s, caller) ==
  IF s.appid = None THEN TRUE
  ELSE IF CanEnter(s.appid) THEN s.appid = caller
  ELSE TRUE

\* command / allow_readwrite: does this app already own the capsule, does
\* no app own it, or does the owning app no longer exist
match_or_empty_or_nonexistant(s, caller) ==
  IF s.appid = None THEN TRUE
  ELSE IF s.active THEN s.appid = caller
  ELSE IF CanEnter(s.appid) THEN s.appid = caller
  ELSE TRUE

\* swap_app_buf that stores the slice and hands the same slice back
swap_app_buf_copy(s, allow_num, slice) ==
  IF s.appid = None THEN Ret([s EXCEPT !.ev.slice = slice], "FAIL")
  ELSE IF CanEnter(s.appid)
       THEN LET s1 == IF allow_num = 0
                      THEN [s EXCEPT !.apps[s.appid].app_buf1 = slice]
                      ELSE [s EXCEPT !.apps[s.appid].app_buf2 = slice]
            IN Ret([s1 EXCEPT !.ev.slice = slice], "OK")
       ELSE Ret([enter_failed(s) EXCEPT !.ev.slice = slice], "NOSUCHAPP")

\* allow_readwrite, allow_num 0 or 1: mem::swap the slice with app_buf1 or
\* app_buf2 of the owner; the slice held afterwards is handed back.
swap_app_buf(s, allow_num, slice) ==
  IF s.appid = None THEN Ret([s EXCEPT !.ev.slice = slice], "FAIL")
  ELSE IF CanEnter(s.appid)
       THEN LET old == IF allow_num = 0 THEN s.apps[s.appid].app_buf1
                       ELSE s.apps[s.appid].app_buf2
                s1 == IF allow_num = 0
                      THEN [s EXCEPT !.apps[s.appid].app_buf1 = slice]
                      ELSE [s EXCEPT !.apps[s.appid].app_buf2 = slice]
            IN Ret([s1 EXCEPT !.ev.slice = old], "OK")
       ELSE Ret([enter_failed(s) EXCEPT !.ev.slice = slice], "NOSUCHAPP")

\* fn allow_readwrite
allow_readwrite(s, caller, allow_num, slice) ==
  IF match_or_empty_or_nonexistant(s, caller)
  THEN LET s1 == [s EXCEPT !.appid = caller, !.ev.admitted = TRUE]
       IN IF allow_num = 0 \/ allow_num = 1
          THEN swap_app_buf(s1, allow_num, slice)
          ELSE Ret([s1 EXCEPT !.ev.slice = slice], "NOSUPPORT")
  ELSE Ret([s EXCEPT !.ev.slice = slice], "NOMEM")

\* fn command.  hwok is the outcome of the request the command makes of the
\* hardware (command 102: whether it has a reference voltage).
command(s, command_num, chan, caller, hwok) ==
  IF match_or_empty_or_nonexistant(s, caller)
  THEN LET s1 == [s EXCEPT !.appid = caller, !.ev.admitted = TRUE]
       IN CASE command_num = 0 -> Ret(s1, "OK")
            [] command_num = 1 -> sample(s1, chan, hwok)
            [] command_num = 2 -> sample_continuous(s1, chan, hwok)
            [] command_num = 3 -> sample_buffer(s1, chan, hwok)
            [] command_num = 4 -> sample_buffer_continuous(s1, chan, hwok)
            [] command_num = 5 -> stop_sampling(s1, hwok)
            [] command_num = 101 -> Ret(s1, "OK")
            [] command_num = 102 -> Ret(s1, IF hwok THEN "OK" ELSE "NOSUPPORT")
            [] OTHER -> Ret(s1, "NOSUPPORT")
  ELSE Ret(s, "NOMEM")

\* ---------------------------------------------------------- AdcVirtualized
\* impl Default for AppSys
AppSysDefault == [pending_command |-> FALSE, command |-> "None", channel |-> 0]

\* What an entry point of AdcVirtualized does to the outside.
VEv ==
  [ ret |-> "NONE",
    upcall |-> NoUpcall,     \* <<process, mode tag, arg2, arg3>> if scheduled
    dispatched |-> FALSE,    \* a channel driver's sample() was called
    idle |-> FALSE ]         \* .. and current_app was empty before the call

VCur == [current_app |-> current_app, vapps |-> vapps, vhw |-> vhw,
         ev |-> VEv]

\* fn call_driver: Operation::OneSample => drivers[channel].sample().  vhw
\* counts, per channel, the requests a driver accepted and has not completed.
call_driver(v, chan, hwok) ==
  LET v1 == [v EXCEPT !.ev.dispatched = TRUE]
  IN IF hwok THEN Ret([v1 EXCEPT !.vhw[chan] = @ + 1], "OK")
     ELSE Ret(v1, "HWERR")

\* enqueue_entered that refuses a second pending request but stores its
\* channel
enqueue_entered_overwrite(v, chan, caller, hwok) ==
  IF v.current_app = None
  THEN LET v1 == call_driver([v EXCEPT !.current_app = caller,
                                       !.ev.idle = TRUE], chan, hwok)
       IN IF v1.ev.ret # "OK" THEN [v1 EXCEPT !.current_app = None] ELSE v1
  ELSE IF v.vapps[caller].pending_command = TRUE
       THEN Ret([v EXCEPT !.vapps[caller].channel = chan], "BUSY")
       ELSE Ret([v EXCEPT !.vapps[caller].pending_command = TRUE,
                          !.vapps[caller].command = "OneSample",
                          !.vapps[caller].channel = chan], "OK")

\* enqueue_entered that keeps the owner when the driver rejects the request
enqueue_entered_keepowner(v, chan, caller, hwok) ==
  IF v.current_app = None
  THEN call_driver([v EXCEPT !.current_app = caller, !.ev.idle = TRUE],
                   chan, hwok)
  ELSE IF v.vapps[caller].pending_command = TRUE
       THEN Ret(v, "BUSY")
       ELSE Ret([v EXCEPT !.vapps[caller].pending_command = TRUE,
                          !.vapps[caller].command = "OneSample",
                          !.vapps[caller].channel = chan], "OK")

\* enqueue_command, inside apps.enter
enqueue_entered(v, chan, caller, hwok) ==
  IF v.current_app = None
  THEN LET v1 == call_driver([v EXCEPT !.current_app = caller,
                                       !.ev.idle = TRUE], chan, hwok)
       IN IF v1.ev.ret # "OK" THEN [v1 EXCEPT !.current_app = None] ELSE v1
  ELSE IF v.vapps[caller].pending_command = TRUE
       THEN Ret(v, "BUSY")
       ELSE Ret([v EXCEPT !.vapps[caller].pending_command = TRUE,
                          !.vapps[caller].command = "OneSample",
                          !.vapps[caller].channel = chan], "OK")

\* fn enqueue_command
enqueue_command(v, chan, caller, hwok) ==
  IF chan < NumDrivers
  THEN IF CanEnter(caller) THEN enqueue_entered(v, chan, caller, hwok)
       ELSE Ret(v, "NOSUCHAPP")
  ELSE Ret(v, "NODEVICE")

\* fn command (Driver for AdcVirtualized); hwok also stands for the presence
\* of a reference voltage (command 102).
vcommand(v, command_num, chan, caller, hwok) ==
  CASE command_num = 0 -> Ret(v, "OK")
    [] command_num = 1 -> enqueue_command(v, chan, caller, hwok)
    [] command_num = 101 ->
         IF chan < NumDrivers THEN Ret(v, "OK") ELSE Ret(v, "NODEVICE")
    [] command_num = 102 ->
         IF chan < NumDrivers
         THEN Ret(v, IF hwok THEN "OK" ELSE "NOSUPPORT")
         ELSE Ret(v, "NODEVICE")
    [] OTHER -> Ret(v, "NOSUPPORT")

\* vsample_ready that looks at current_app without taking it when the
\* grant cannot be entered
vsample_ready_notake(v, value) ==
  IF v.current_app = None THEN v
  ELSE LET id == v.current_app
       IN IF CanEnter(id)
          THEN [v EXCEPT
                  !.current_app = None,
                  !.vapps[id].pending_command = FALSE,
                  !.ev.upcall = <<id, SingleSample, v.vapps[id].channel, value>>]
          ELSE v

\* fn sample_ready (hil::adc::Client for AdcVirtualized)
vsample_ready(v, value) ==
  IF v.current_app = None THEN v
  ELSE LET id == v.current_app
           v1 == [v EXCEPT !.current_app = None]
       IN IF CanEnter(id)
          THEN [v1 EXCEPT
                  !.vapps[id].pending_command = FALSE,
                  !.ev.upcall = <<id, SingleSample, v.vapps[id].channel, value>>]
          ELSE v1

\* ------------------------------------------------------------ initial state
\* AdcDedicated::new, AdcVirtualized::new, empty grants, idle hardware.
Init ==
  /\ active = FALSE
  /\ mode = NoMode
  /\ appid = None
  /\ channel = 0
  /\ adc_buf1 = 1
  /\ adc_buf2 = 2
  /\ adc_buf3 = 3
  /\ apps = [p \in Procs |-> AppDefault]
  /\ hw = [mode |-> "off", bufs |-> <<>>]
  /\ lost = {}
  /\ wrapping = FALSE
  /\ panicked = FALSE
  /\ armed = 0
  /\ opUpcalls = 0
  /\ nops = 0
  /\ nallows = 0
  /\ alive = Procs
  /\ current_app = None
  /\ vapps = [p \in Procs |-> AppSysDefault]
  /\ vhw = [c \in 0..(NumDrivers - 1) |-> 0]

\* ------------------------------------------------------------------ actions
\* armed: the number of samples asked of a buffered operation when it was
\* started (the sample length of app_buf1 then), 0 when no buffered
\* operation is in progress.  opUpcalls: the upcalls scheduled since the
\* operation in progress was started, counted up to MaxUpcalls.
armed_next(s) ==
  IF ~s.active \/ s.mode \notin {SingleBuffer, ContinuousBuffer} THEN 0
  ELSE IF ~active /\ s.appid # None
       THEN s.apps[s.appid].app_buf1.len \div 2
       ELSE armed

opUpcalls_next(s) ==
  IF ~s.active \/ ~active THEN 0
  ELSE IF s.ev.upcall # NoUpcall THEN Min(opUpcalls + 1, MaxUpcalls)
  ELSE opUpcalls

\* The state an entry point of AdcDedicated returns in.
Commit(s) ==
  /\ active' = s.active
  /\ mode' = s.mode
  /\ appid' = s.appid
  /\ channel' = s.channel
  /\ adc_buf1' = s.adc_buf1
  /\ adc_buf2' = s.adc_buf2
  /\ adc_buf3' = s.adc_buf3
  /\ apps' = s.apps
  /\ hw' = s.hw
  /\ lost' = s.lost
  /\ armed' = armed_next(s)
  /\ opUpcalls' = opUpcalls_next(s)
  /\ nops' = IF s.active /\ ~active THEN nops + 1 ELSE nops
  /\ nops' <= MaxOps
  /\ UNCHANGED <<alive, vvars>>

\* An entry point whose arithmetic overflowed panics in a build with
\* overflow checks and wraps in a build without; once an overflow has
\* wrapped, the build is known to wrap.
Finish(s) ==
  IF s.ovf
  THEN \/ /\ ~wrapping
          /\ panicked' = TRUE
          /\ UNCHANGED <<active, mode, appid, channel, adc_buf1, adc_buf2,
                         adc_buf3, apps, hw, lost, wrapping, armed,
                         opUpcalls, nops, alive, vvars>>
       \/ /\ Commit(s)
          /\ wrapping' = TRUE
          /\ UNCHANGED panicked
  ELSE Commit(s) /\ UNCHANGED <<wrapping, panicked>>

Chans == 0..NumChannels        \* channel arguments; NumChannels is invalid

\* A syscall of a live process p on AdcDedicated.  The hardware accepts a
\* request to sample only when it is not sampling already.
Syscall(p, num, chan, hwok) ==
  /\ ~panicked
  /\ (num \in {1, 2, 3, 4} /\ hwok) => hw.mode = "off"
  /\ p \in alive
  /\ Finish(command(Cur, num, chan, p, hwok))
  /\ UNCHANGED nallows

CmdQuery(p) == \E num \in {0, 101, 102, 7} : Syscall(p, num, 0, FALSE)

\* The channel arguments of the full driver's runs: the last channel of the
\* list and the first index past it.
LastChans == {NumChannels - 1, NumChannels}

CmdSample(p) ==
  \E chan \in LastChans, hwok \in BOOLEAN : Syscall(p, 1, chan, hwok)

CmdSampleContinuous(p) ==
  \E chan \in LastChans, hwok \in BOOLEAN : Syscall(p, 2, chan, hwok)

CmdSampleBuffer(p) ==
  \E chan \in LastChans, hwok \in BOOLEAN : Syscall(p, 3, chan, hwok)

CmdSampleBufferContinuous(p) ==
  \E chan \in LastChans, hwok \in BOOLEAN : Syscall(p, 4, chan, hwok)

CmdStop(p) == \E stopOk \in BOOLEAN : Syscall(p, 5, 0, stopOk)

Allow(p) ==
  /\ ~panicked
  /\ p \in alive
  /\ \E allow_num \in {0, 1, 2}, slice \in Slices :
       Finish(allow_readwrite(Cur, p, allow_num, slice))
  /\ nallows < MaxAllows
  /\ nallows' = nallows + 1

\* The hardware reports a single sample; a single-sample request is then
\* complete, a continuous one goes on.
SampleReady ==
  /\ ~panicked
  /\ hw.mode \in {"single", "cont"}
  /\ \E value \in Samples, stopOk \in BOOLEAN :
       LET s0 == [Cur EXCEPT
                    !.hw.mode = IF @ = "single" THEN "off" ELSE @]
       IN Finish(sample_ready(s0, value, stopOk))
  /\ UNCHANGED nallows

\* A counter of the owner has wrapped below zero.  The hardware is taken to
\* deliver no further buffer to an operation in that state.
Wrapped ==
  /\ appid # None
  /\ appid \in alive
  /\ \/ apps[appid].samples_remaining < 0
     \/ apps[appid].samples_outstanding < 0

\* The hardware has filled the first buffer it holds with the number of
\* samples asked for and hands it back.
CanDeliver ==
  /\ ~panicked
  /\ hw.mode = "hs"
  /\ hw.bufs # <<>>
  /\ ~(active /\ Wrapped)

NextDelivery(provOk, stopOk) ==
  LET e == Head(hw.bufs)
  IN samples_ready([Cur EXCEPT !.hw.bufs = Tail(@)], e.slot, e.len,
                   provOk, stopOk)

SamplesReady ==
  /\ CanDeliver
  /\ \E provOk \in BOOLEAN, stopOk \in BOOLEAN :
       Finish(NextDelivery(provOk, stopOk))
  /\ UNCHANGED nallows

\* Process p crashes or is revoked: its grant can no longer be entered and
\* the kernel frees it.
Crash(p) ==
  /\ ~panicked
  /\ p \in alive
  /\ alive' = alive \ {p}
  /\ apps' = [apps EXCEPT ![p] = AppDefault]
  /\ UNCHANGED <<active, mode, appid, channel, adc_buf1, adc_buf2, adc_buf3,
                 hw, lost, wrapping, panicked, armed, opUpcalls,
                 nops, nallows, vvars>>

Next ==
  \/ \E p \in Procs : CmdQuery(p)
  \/ \E p \in Procs : CmdSample(p)
  \/ \E p \in Procs : CmdSampleContinuous(p)
  \/ \E p \in Procs : CmdSampleBuffer(p)
  \/ \E p \in Procs : CmdSampleBufferContinuous(p)
  \/ \E p \in Procs : CmdStop(p)
  \/ \E p \in Procs : Allow(p)
  \/ SampleReady
  \/ SamplesReady
  \/ \E p \in Procs : Crash(p)

Spec == Init /\ [][Next]_vars

\* AdcDedicated used for single samples only (commands 1, 2 and 5 and the
\* queries), on every channel of the list.
ScalarSample(p) ==
  \E chan \in Chans, hwok \in BOOLEAN : Syscall(p, 1, chan, hwok)

ScalarSampleContinuous(p) ==
  \E chan \in Chans, hwok \in BOOLEAN : Syscall(p, 2, chan, hwok)

NextS ==
  \/ \E p \in Procs : CmdQuery(p)
  \/ \E p \in Procs : ScalarSample(p)
  \/ \E p \in Procs : ScalarSampleContinuous(p)
  \/ \E p \in Procs : CmdStop(p)
  \/ SampleReady
  \/ \E p \in Procs : Crash(p)

SpecS == Init /\ [][NextS]_vars

\* AdcDedicated used for single buffers (allow 0, command 3, command 5 and
\* the samples_ready callback), with app buffers of further lengths: of one
\* sample, of one sample more than one and than two kernel buffers, and of
\* four kernel buffers.
SizedSlices ==
  UserSlices \cup
    { [ptr |-> 5, len |-> 2],
      [ptr |-> 6, len |-> 2 * BufCap + 2],
      [ptr |-> 7, len |-> 4 * BufCap + 2],
      [ptr |-> 8, len |-> 8 * BufCap] }

AllowSized(p) ==
  /\ ~panicked
  /\ p \in alive
  /\ \E slice \in SizedSlices : Finish(allow_readwrite(Cur, p, 0, slice))
  /\ nallows < MaxAllows
  /\ nallows' = nallows + 1

NextB ==
  \/ \E p \in Procs : AllowSized(p)
  \/ \E p \in Procs : CmdSampleBuffer(p)
  \/ \E p \in Procs : CmdStop(p)
  \/ SamplesReady

SpecB == Init /\ [][NextB]_vars

\* ------------------------------------------------- AdcVirtualized: actions
VCommit(v) ==
  /\ current_app' = v.current_app
  /\ vapps' = v.vapps
  /\ vhw' = v.vhw
  /\ UNCHANGED <<dvars, alive>>

VCommand(p) ==
  /\ p \in alive
  /\ \E num \in {0, 1, 101, 102, 7}, chan \in 0..NumDrivers,
        hwok \in BOOLEAN :
       VCommit(vcommand(VCur, num, chan, p, hwok))

\* A channel driver completes a request it accepted.
VSampleReady ==
  \E c \in DOMAIN vhw, value \in Samples :
    /\ vhw[c] > 0
    /\ VCommit(vsample_ready([VCur EXCEPT !.vhw[c] = @ - 1], value))

VCrash(p) ==
  /\ p \in alive
  /\ alive' = alive \ {p}
  /\ vapps' = [vapps EXCEPT ![p] = AppSysDefault]
  /\ UNCHANGED <<dvars, current_app, vhw>>

NextV ==
  \/ \E p \in Procs : VCommand(p)
  \/ VSampleReady
  \/ \E p \in Procs : VCrash(p)

SpecV == Init /\ [][NextV]_vars

\* A board with both capsules, AdcDedicated used for single samples and
\* AdcVirtualized, each with its own hardware.  A process that crashes
\* loses its grant in both.
CrashBoth(p) ==
  /\ p \in alive
  /\ alive' = alive \ {p}
  /\ apps' = [apps EXCEPT ![p] = AppDefault]
  /\ vapps' = [vapps EXCEPT ![p] = AppSysDefault]
  /\ UNCHANGED <<active, mode, appid, channel, adc_buf1, adc_buf2, adc_buf3,
                 hw, lost, wrapping, panicked, armed, opUpcalls,
                 nops, nallows, current_app, vhw>>

NextSV ==
  \/ \E p \in Procs : CmdQuery(p)
  \/ \E p \in Procs : ScalarSample(p)
  \/ \E p \in Procs : ScalarSampleContinuous(p)
  \/ \E p \in Procs : CmdStop(p)
  \/ SampleReady
  \/ \E p \in Procs : VCommand(p)
  \/ VSampleReady
  \/ \E p \in Procs : CrashBoth(p)

SpecSV == Init /\ [][NextSV]_vars

\* ------------------------------------------------------------- properties
\* The kernel buffers in the pool and those on loan to the hardware.
PoolSlots == {adc_buf1, adc_buf2, adc_buf3} \ {None}
LoanSlots == {hw.bufs[i].slot : i \in DOMAIN hw.bufs}
PoolCount ==
  (IF adc_buf1 # None THEN 1 ELSE 0) + (IF adc_buf2 # None THEN 1 ELSE 0)
  + (IF adc_buf3 # None THEN 1 ELSE 0)
Idle == ~active /\ mode = NoMode

\* C1: between entry points, each of the three kernel buffers is in exactly
\* one place, a pool position or on loan to the hardware: none is in two
\* places, none is lost, and pool plus loan count 3.
C1_PoolConservation ==
  /\ lost = {}
  /\ PoolSlots \cup LoanSlots = Slots
  /\ PoolSlots \cap LoanSlots = {}
  /\ PoolCount + Len(hw.bufs) = 3

\* a continuous buffered operation that has handed buffers back and forth
C1_Witness ==
  /\ active /\ mode = ContinuousBuffer /\ opUpcalls >= 1
  /\ Len(hw.bufs) = 2 /\ PoolCount = 1

\* The same of the state a handler yields.
AllInPool(r) == {r.adc_buf1, r.adc_buf2, r.adc_buf3} = Slots
SlotCount(r) ==
  (IF r.adc_buf1 # None THEN 1 ELSE 0) + (IF r.adc_buf2 # None THEN 1 ELSE 0)
  + (IF r.adc_buf3 # None THEN 1 ELSE 0) + Len(r.hw.bufs)
IsIdle(r) == ~r.active /\ r.mode = NoMode
SamePool(r) ==
  r.adc_buf1 = adc_buf1 /\ r.adc_buf2 = adc_buf2 /\ r.adc_buf3 = adc_buf3

CommandNums == {0, 1, 2, 3, 4, 5, 7, 101, 102}
StartNums == {1, 2, 3, 4}

\* The admission rule as the specification words it.
Admissible(p) ==
  \/ appid = None
  \/ appid = p
  \/ ~active /\ ~CanEnter(appid)

\* C2: a command or allow call of process p is admitted, and p recorded as
\* owner, exactly when no owner is recorded, or the owner is p, or no
\* operation is active and the owner can no longer be entered; every other
\* call fails with NOMEM and changes nothing.  While the owner is alive
\* every call of another process fails with NOMEM.
C2_Admission ==
  \A p \in alive :
    /\ \A num \in CommandNums, chan \in Chans, hwok \in BOOLEAN :
         LET r == command(Cur, num, chan, p, hwok)
         IN /\ r.ev.admitted <=> Admissible(p)
            /\ r.ev.admitted => r.appid = p
            /\ ~r.ev.admitted => r = Ret(Cur, "NOMEM")
            /\ (appid # None /\ CanEnter(appid) /\ p # appid)
                 => r.ev.ret = "NOMEM"
    /\ \A allow_num \in {0, 1, 2}, slice \in Slices :
         LET r == allow_readwrite(Cur, p, allow_num, slice)
         IN /\ r.ev.admitted <=> Admissible(p)
            /\ r.ev.admitted => r.appid = p
            /\ ~r.ev.admitted => r = [Ret(Cur, "NOMEM") EXCEPT !.ev.slice = slice]
            /\ (appid # None /\ CanEnter(appid) /\ p # appid)
                 => r.ev.ret = "NOMEM"

\* an operation is active, its owner is gone and another process is alive
C2_Witness ==
  active /\ appid # None /\ ~CanEnter(appid) /\ alive # {}

\* C3: starting a sampling operation (commands 1 to 4) while the active
\* flag is set fails with BUSY and leaves the mode, the active flag, the
\* channel, the pool and the counters of every process unchanged.
C3_BusyStart ==
  active =>
    /\ \A chan \in Chans, hwok \in BOOLEAN :
         /\ sample(Cur, chan, hwok) = Ret(Cur, "BUSY")
         /\ sample_continuous(Cur, chan, hwok) = Ret(Cur, "BUSY")
         /\ sample_buffer(Cur, chan, hwok) = Ret(Cur, "BUSY")
         /\ sample_buffer_continuous(Cur, chan, hwok) = Ret(Cur, "BUSY")
    /\ \A p \in alive, num \in StartNums, chan \in Chans, hwok \in BOOLEAN :
         LET r == command(Cur, num, chan, p, hwok)
         IN r.ev.admitted =>
              /\ r.ev.ret = "BUSY"
              /\ r.mode = mode /\ r.active = active /\ r.channel = channel
              /\ SamePool(r) /\ r.hw = hw
              /\ r.apps = apps

\* a buffered operation of a live owner is in progress
C3_Witness ==
  active /\ mode = ContinuousBuffer /\ appid # None /\ CanEnter(appid)
  /\ hw.bufs # <<>>

\* The owner of an active buffered operation can no longer be entered and
\* the hardware has a buffer to hand back.
RevokedDelivery ==
  /\ CanDeliver
  /\ active /\ mode \in {SingleBuffer, ContinuousBuffer}
  /\ appid # None /\ ~CanEnter(appid)

OneSlotOperation ==
  /\ CanDeliver
  /\ active /\ mode = SingleBuffer /\ armed = BufCap
  /\ appid # None /\ CanEnter(appid)
  /\ apps[appid].app_buf1.len = 2 * BufCap

ContinuousDelivery ==
  /\ CanDeliver
  /\ active /\ mode = ContinuousBuffer /\ opUpcalls >= 2
  /\ appid # None /\ CanEnter(appid)

\* C6: in a ContinuousBuffer operation that has gone through two swaps of
\* the app buffers, the samples a samples_ready delivers are copied once,
\* all of them and from the buffer that was delivered, and the byte offset
\* is zero after every upcall.
C6_ContinuousCopy ==
  ContinuousDelivery =>
    \A provOk \in BOOLEAN, stopOk \in BOOLEAN :
      LET r == NextDelivery(provOk, stopOk)
      IN /\ r.ev.src = Head(hw.bufs).slot
         /\ r.ev.copied = Head(hw.bufs).len
         /\ r.ev.upcall # NoUpcall => r.apps[appid].app_buf_offset = 0

\* The kernel buffers in the pool of the state a handler yields.
PoolOf(r) == {r.adc_buf1, r.adc_buf2, r.adc_buf3} \ {None}
ValidChans == 0..(NumChannels - 1)

\* C7: a buffered or continuous buffered start that fails after the busy,
\* channel and buffer checks, a pool position being empty (BUSY) or the
\* hardware rejecting the request (HWERR), returns with the driver idle,
\* the owner's remaining and outstanding counters zero and the pool holding
\* the buffers it held before.
C7_FailedStartUnwinds ==
  ~active =>
    \A p \in alive, num \in {3, 4}, chan \in ValidChans, hwok \in BOOLEAN :
      LET r == command(Cur, num, chan, p, hwok)
      IN (r.ev.admitted /\ r.ev.ret \in {"BUSY", "HWERR"}) =>
           /\ IsIdle(r)
           /\ r.appid = p
           /\ r.apps[p].samples_remaining = 0
           /\ r.apps[p].samples_outstanding = 0
           /\ PoolOf(r) = PoolSlots /\ SlotCount(r) = PoolCount + Len(hw.bufs)
           /\ r.lost = lost /\ r.hw = hw

\* an idle driver whose owner has a buffer registered and counters left
\* over from an earlier operation, the pool not being full
C7_Witness ==
  /\ ~active /\ appid # None /\ CanEnter(appid)
  /\ apps[appid].app_buf1.len > 0
  /\ apps[appid].samples_outstanding # 0
  /\ adc_buf1 = None

\* The callbacks the hardware can make in the state a handler yields yield
\* no upcall.
QuietAfter(r) ==
  /\ r.hw.mode \in {"single", "cont"} =>
       \A value \in Samples, stopOk \in BOOLEAN :
         LET r0 == [r EXCEPT !.ev = Ev,
                             !.hw.mode = IF @ = "single" THEN "off" ELSE @]
         IN sample_ready(r0, value, stopOk).ev.upcall = NoUpcall
  /\ (r.hw.mode = "hs" /\ r.hw.bufs # <<>>) =>
       \A provOk \in BOOLEAN, stopOk \in BOOLEAN :
         LET e == Head(r.hw.bufs)
             r0 == [r EXCEPT !.ev = Ev, !.hw.bufs = Tail(@)]
         IN samples_ready(r0, e.slot, e.len, provOk, stopOk).ev.upcall
              = NoUpcall

\* C8: the owner's stop command on an active operation cancels it and
\* schedules no upcall, and as long as no operation is active no hardware
\* callback, sample_ready or samples_ready, schedules one.
C8_QuietAfterStop ==
  /\ (active /\ mode # NoMode /\ appid # None /\ CanEnter(appid)) =>
       \A stopOk \in BOOLEAN :
         LET r == command(Cur, 5, 0, appid, stopOk)
         IN ~r.active /\ r.ev.upcall = NoUpcall /\ QuietAfter(r)
  /\ ~active => QuietAfter(Cur)

\* no process has crashed, no operation is active and the hardware still
\* samples: a stop command has run that the hardware refused
C8_Witness ==
  /\ ~active /\ alive = Procs /\ appid # None
  /\ \/ hw.mode = "cont"
     \/ hw.mode = "hs" /\ hw.bufs # <<>> /\ mode = NoMode
                      /\ apps[appid].samples_outstanding > 0

\* An operation is active and process p calls stop.
StopOfActive(p) ==
  /\ ~panicked
  /\ active /\ mode # NoMode
  /\ p \in alive
  /\ command(Cur, 5, 0, p, TRUE).ev.admitted

RECURSIVE SumTo(_)
SumTo(n) == IF n < 0 THEN 0 ELSE vhw[n] + SumTo(n - 1)
Outstanding == SumTo(NumDrivers - 1)

\* C10: AdcVirtualized has at most one request outstanding at its channel
\* drivers, it records an in-flight owner exactly while a request is
\* outstanding, and it calls a driver's sample() only when no in-flight
\* owner is recorded.
C10_OneInFlight ==
  /\ Outstanding <= 1
  /\ current_app # None <=> Outstanding = 1
  /\ \A p \in alive, chan \in 0..NumDrivers, hwok \in BOOLEAN :
       LET r == vcommand(VCur, 1, chan, p, hwok)
       IN r.ev.dispatched => current_app = None

\* a request is in flight and another process has one queued
C10_Witness ==
  /\ current_app # None /\ Outstanding = 1
  /\ \E p \in Procs : p # current_app /\ vapps[p].pending_command

\* AdcVirtualized with channel drivers that complete every request they
\* accepted (sample_ready is called for each accepted sample()).
SpecVFair == SpecV /\ WF_vars(VSampleReady)

\* C11: a single-sample command accepted while another process's request
\* is in flight (the caller's pending flag is set, lines 665-668) is
\* eventually executed: unless the process dies, its request is dispatched
\* to a channel driver, which makes it the in-flight owner.
C11_QueuedIsExecuted ==
  \A p \in Procs :
    (p \in alive /\ vapps[p].pending_command /\ current_app # p)
      ~> (current_app = p \/ p \notin alive)

ValidDrivers == 0..(NumDrivers - 1)

\* C12: while a request is in flight, a single-sample command of a process
\* whose pending flag is clear sets its pending flag, command and channel
\* and returns success, without calling a driver; a single-sample command of
\* a process whose pending flag is set fails BUSY and changes nothing, so
\* the stored pending command and channel stay as they were.
C12_OnePending ==
  current_app # None =>
    \A p \in alive, chan \in ValidDrivers, hwok \in BOOLEAN :
      LET r == vcommand(VCur, 1, chan, p, hwok)
      IN /\ r.current_app = current_app
         /\ ~r.ev.dispatched
         /\ r.vhw = vhw
         /\ \A q \in Procs \ {p} : r.vapps[q] = vapps[q]
         /\ IF vapps[p].pending_command
            THEN r.ev.ret = "BUSY" /\ r.vapps[p] = vapps[p]
            ELSE /\ r.ev.ret = "OK"
                 /\ r.vapps[p] = [pending_command |-> TRUE,
                                  command |-> "OneSample",
                                  channel |-> chan]

\* a process with a pending request asks for another channel while a
\* request is in flight
C12_Witness ==
  /\ current_app # None
  /\ \E p \in alive, chan \in ValidDrivers :
       /\ vapps[p].pending_command
       /\ vapps[p].channel # chan
       /\ vcommand(VCur, 1, chan, p, TRUE).ev.ret = "BUSY"

\* C13: the upcall scheduled when a channel driver completes a sample carries
\* the single-sample mode tag, the index of the channel the completed sample
\* was requested on (the driver that call_driver asked) and the sample value.
C13_UpcallChannel ==
  \A c \in ValidDrivers, value \in Samples :
    vhw[c] > 0 =>
      LET r == vsample_ready([VCur EXCEPT !.vhw[c] = @ - 1], value)
      IN r.ev.upcall # NoUpcall =>
           r.ev.upcall = <<current_app, SingleSample, c, value>>

\* The sample_ready callback the hardware makes next.
NextSample(value, stopOk) ==
  sample_ready([Cur EXCEPT !.hw.mode = IF @ = "single" THEN "off" ELSE @],
               value, stopOk)

\* A single-sample operation of a live owner waits for its sample.
SingleRunning ==
  /\ active /\ mode = SingleSample
  /\ appid # None /\ CanEnter(appid)
  /\ hw.mode = "single"

\* C14: a single-sample command that succeeds leaves the driver active in
\* SingleSample mode on the channel of the command; until the sample
\* arrives no entry point changes the channel or the owner or schedules an
\* upcall; the first sample_ready schedules one upcall (0, that channel,
\* the sample) for the owner and leaves the driver idle, and a single-sample
\* command made then succeeds.
C14_SingleSample ==
  /\ \A p \in alive, chan \in ValidChans :
       LET r == command(Cur, 1, chan, p, TRUE)
       IN r.ev.ret = "OK" =>
            /\ r.active /\ r.mode = SingleSample
            /\ r.appid = p /\ r.channel = chan
            /\ r.hw.mode = "single"
            /\ r.ev.upcall = NoUpcall
  /\ SingleRunning =>
       /\ opUpcalls = 0
       /\ \A p \in alive, num \in CommandNums, chan \in Chans,
             hwok \in BOOLEAN :
            LET r == command(Cur, num, chan, p, hwok)
            IN /\ r.ev.upcall = NoUpcall
               /\ r.active => /\ r.mode = SingleSample
                               /\ r.channel = channel /\ r.appid = appid
       /\ \A p \in alive, allow_num \in {0, 1, 2}, slice \in Slices :
            LET r == allow_readwrite(Cur, p, allow_num, slice)
            IN /\ r.ev.upcall = NoUpcall
               /\ r.active /\ r.mode = SingleSample
               /\ r.channel = channel /\ r.appid = appid
       /\ \A value \in Samples, stopOk \in BOOLEAN :
            LET r == NextSample(value, stopOk)
            IN /\ r.ev.upcall = <<appid, SingleSample, channel, value>>
               /\ IsIdle(r)
               /\ r.hw.mode = "off"
               /\ \A chan \in ValidChans :
                    command([r EXCEPT !.ev = Ev], 1, chan, appid, TRUE).ev.ret
                      = "OK"

\* a single sample has been asked for on the last channel of the list
C14_Witness == SingleRunning /\ channel = NumChannels - 1

\* A continuous-sample operation is in progress.
ContinuousRunning ==
  /\ active /\ mode = ContinuousSample
  /\ appid # None
  /\ hw.mode = "cont"

\* C15: a continuous-sample command that succeeds leaves the driver active
\* in ContinuousSample mode on the channel of the command.  While the owner
\* can be entered, every sample_ready schedules one upcall (1, that channel,
\* the sample) for the owner, asks for no stop and leaves the driver active
\* in ContinuousSample mode with the same channel and owner, and so does
\* every command and allow call other than the owner's stop, without an
\* upcall; the owner's stop ends the operation, and so does a sample_ready
\* that finds the owner's context gone, without an upcall.
C15_ContinuousSample ==
  /\ \A p \in alive, chan \in ValidChans :
       LET r == command(Cur, 2, chan, p, TRUE)
       IN r.ev.ret = "OK" =>
            /\ r.active /\ r.mode = ContinuousSample
            /\ r.appid = p /\ r.channel = chan
            /\ r.hw.mode = "cont"
            /\ r.ev.upcall = NoUpcall
  /\ (ContinuousRunning /\ CanEnter(appid)) =>
       /\ \A value \in Samples, stopOk \in BOOLEAN :
            LET r == NextSample(value, stopOk)
            IN /\ r.ev.upcall = <<appid, ContinuousSample, channel, value>>
               /\ ~r.ev.hwstop
               /\ r.active /\ r.mode = ContinuousSample
               /\ r.channel = channel /\ r.appid = appid
               /\ r.hw.mode = "cont"
       /\ \A p \in alive, num \in CommandNums, chan \in Chans,
             hwok \in BOOLEAN :
            LET r == command(Cur, num, chan, p, hwok)
            IN /\ r.ev.upcall = NoUpcall
               /\ IF num = 5 /\ p = appid
                  THEN ~r.active
                  ELSE /\ r.active /\ r.mode = ContinuousSample
                       /\ r.channel = channel /\ r.appid = appid
                       /\ r.hw = hw
       /\ \A p \in alive, allow_num \in {0, 1, 2}, slice \in Slices :
            LET r == allow_readwrite(Cur, p, allow_num, slice)
            IN /\ r.ev.upcall = NoUpcall
               /\ r.active /\ r.mode = ContinuousSample
               /\ r.channel = channel /\ r.appid = appid
               /\ r.hw = hw
  /\ (ContinuousRunning /\ ~CanEnter(appid)) =>
       \A value \in Samples, stopOk \in BOOLEAN :
         LET r == NextSample(value, stopOk)
         IN r.ev.upcall = NoUpcall /\ IsIdle(r) /\ r.ev.hwstop

\* a continuous operation on the last channel has made MaxUpcalls upcalls
C15_Witness ==
  /\ ContinuousRunning /\ CanEnter(appid)
  /\ channel = NumChannels - 1
  /\ opUpcalls = MaxUpcalls

\* A buffered operation of a live owner is about to be handed a buffer.
BufferedDelivery ==
  /\ CanDeliver
  /\ active /\ mode \in {SingleBuffer, ContinuousBuffer}
  /\ appid # None /\ CanEnter(appid)

\* The app buffer of the owner that samples are copied into.
CurrentAppBuf ==
  IF apps[appid].using_app_buf1 THEN apps[appid].app_buf1
  ELSE apps[appid].app_buf2

\* C16: an upcall scheduled by samples_ready in SingleBuffer or
\* ContinuousBuffer mode carries the mode of the operation, the length in
\* samples of the app buffer that was current when the callback began,
\* shifted left by 8 and or-ed with the low 8 bits of the channel, and the
\* handle of that buffer; in ContinuousBuffer mode the other app buffer is
\* current afterwards.
C16_BufferUpcall ==
  BufferedDelivery =>
    \A provOk \in BOOLEAN, stopOk \in BOOLEAN :
      LET r == NextDelivery(provOk, stopOk)
      IN r.ev.upcall # NoUpcall =>
           /\ r.ev.upcall =
                <<appid, mode,
                  ((CurrentAppBuf.len \div 2) * 256) + (channel % 256),
                  CurrentAppBuf.ptr>>
           /\ mode = ContinuousBuffer =>
                r.apps[appid].using_app_buf1 = ~apps[appid].using_app_buf1

\* the second app buffer of a continuous operation on the last channel is
\* about to be reported
C16_Witness ==
  /\ BufferedDelivery /\ mode = ContinuousBuffer
  /\ ~apps[appid].using_app_buf1
  /\ channel = NumChannels - 1
  /\ \E provOk \in BOOLEAN, stopOk \in BOOLEAN :
       NextDelivery(provOk, stopOk).ev.upcall # NoUpcall

\* C17: an admitted allow call with number 0 or 1 of a process whose grant
\* can be entered stores the slice passed as app_buf1 or app_buf2 of that
\* process, changes nothing else in the grants and returns the slice
\* registered before; when the grant cannot be entered the call returns an
\* error with the slice passed and no grant has changed; any other allow
\* number returns NOSUPPORT with the slice passed and no grant has changed.
C17_Allow ==
  \A p \in Procs, allow_num \in {0, 1, 2}, slice \in Slices :
    LET r == allow_readwrite(Cur, p, allow_num, slice)
    IN r.ev.admitted =>
         IF allow_num \notin {0, 1}
         THEN r.ev.ret = "NOSUPPORT" /\ r.ev.slice = slice /\ r.apps = apps
         ELSE IF CanEnter(p)
         THEN /\ r.ev.ret = "OK"
              /\ r.ev.slice = IF allow_num = 0 THEN apps[p].app_buf1
                              ELSE apps[p].app_buf2
              /\ r.apps = IF allow_num = 0
                          THEN [apps EXCEPT ![p].app_buf1 = slice]
                          ELSE [apps EXCEPT ![p].app_buf2 = slice]
         ELSE /\ r.ev.ret \notin {"OK", "NONE"}
              /\ r.ev.slice = slice
              /\ r.apps = apps

\* a process has registered both buffers, so that a further allow call
\* returns one of them, and the grant of another process cannot be entered
C17_Witness ==
  /\ alive # Procs
  /\ \E p \in alive :
       /\ appid = p
       /\ apps[p].app_buf1 # NullSlice /\ apps[p].app_buf2 # NullSlice
       /\ apps[p].app_buf1 # apps[p].app_buf2
       /\ allow_readwrite(Cur, p, 1, NullSlice).ev.slice = apps[p].app_buf2

\* C18: with the driver idle, an admitted command 3 on a valid channel
\* returns NOMEM exactly when app_buf1 of the caller has length zero, and an
\* admitted command 4 exactly when app_buf1 or app_buf2 has; the command
\* that returns NOMEM leaves the active flag, the mode, the pool, the
\* hardware and the grants as they were.
C18_NoBuffer ==
  ~active =>
    \A p \in alive, num \in {3, 4}, chan \in ValidChans, hwok \in BOOLEAN :
      LET r == command(Cur, num, chan, p, hwok)
          empty == \/ apps[p].app_buf1.len = 0
                   \/ num = 4 /\ apps[p].app_buf2.len = 0
      IN r.ev.admitted =>
           /\ r.ev.ret = "NOMEM" <=> empty
           /\ empty =>
                /\ r.active = active /\ r.mode = mode
                /\ SamePool(r) /\ r.hw = hw
                /\ r.apps = apps /\ r.lost = lost

\* the owner has registered its first buffer only; the pool is full
C18_Witness ==
  /\ ~active /\ appid # None /\ CanEnter(appid)
  /\ apps[appid].app_buf1.len > 0 /\ apps[appid].app_buf2.len = 0
  /\ PoolSlots = Slots
  /\ command(Cur, 4, NumChannels - 1, appid, TRUE).ev.ret = "NOMEM"
  /\ command(Cur, 3, NumChannels - 1, appid, TRUE).ev.ret = "OK"

\* C19: with the driver idle, an admitted command 1 or 2 on a valid channel
\* whose request the hardware rejects returns the error of the hardware,
\* schedules no upcall and leaves the driver idle and the hardware as it
\* was; a command 1 or 2 made next is not refused as BUSY, and neither is a
\* command 3 or 4 when the pool holds its three buffers.
C19_RejectedStart ==
  ~active =>
    \A p \in alive, num \in {1, 2}, chan \in ValidChans :
      LET r == command(Cur, num, chan, p, FALSE)
      IN r.ev.admitted =>
           /\ r.ev.ret = "HWERR"
           /\ r.ev.upcall = NoUpcall
           /\ IsIdle(r)
           /\ r.hw = hw
           /\ \A num2 \in StartNums, chan2 \in Chans, hwok2 \in BOOLEAN :
                (num2 \in {1, 2} \/ AllInPool(r)) =>
                  command([r EXCEPT !.ev = Ev], num2, chan2, p, hwok2).ev.ret
                    # "BUSY"

\* the hardware has rejected a request on the last channel, the only
\* request made so far
C19_Witness ==
  /\ channel = NumChannels - 1 /\ nops = 0
  /\ Idle /\ hw.mode = "off"
  /\ appid # None /\ CanEnter(appid)

\* Channel indices past the end of the channel list and of the driver list.
InvalidChans == {NumChannels, NumChannels + 1}
InvalidDrivers == {NumDrivers, NumDrivers + 1}

\* C20: with the driver idle, an admitted command 1, 2, 3 or 4 of
\* AdcDedicated with a channel index past the channel list returns INVAL
\* and leaves the mode, the active flag, the channel, the pool, the
\* hardware and the grants as they were; command 1 of AdcVirtualized with a
\* channel index past the driver list returns NODEVICE, calls no driver
\* and leaves the in-flight owner and the record of every process (so its
\* pending flag) as they were.
C20_BadChannel ==
  /\ ~active =>
       \A p \in alive, num \in StartNums, chan \in InvalidChans,
          hwok \in BOOLEAN :
         LET r == command(Cur, num, chan, p, hwok)
         IN r.ev.admitted =>
              /\ r.ev.ret = "INVAL"
              /\ r.mode = mode /\ r.active = active /\ r.channel = channel
              /\ SamePool(r) /\ r.hw = hw /\ r.apps = apps
  /\ \A p \in alive, chan \in InvalidDrivers, hwok \in BOOLEAN :
       LET r == vcommand(VCur, 1, chan, p, hwok)
       IN /\ r.ev.ret = "NODEVICE"
          /\ ~r.ev.dispatched
          /\ r.current_app = current_app
          /\ r.vapps = vapps
          /\ r.vhw = vhw

\* AdcDedicated is idle after an operation on the last channel;
\* AdcVirtualized has a request in flight and another one pending
C20_Witness ==
  /\ ~active /\ channel = NumChannels - 1 /\ nops > 0
  /\ appid # None /\ CanEnter(appid)
  /\ current_app # None
  /\ \E p \in alive : vapps[p].pending_command

\* C21: a buffered sample started on an app buffer of n samples asks the
\* hardware for len1 = min(n, 128) samples in the buffer taken from
\* position 1 and len2 = min(n - len1, 128) in the one from position 2, and
\* sets samples_remaining to n - len1 - len2 and samples_outstanding to
\* len1 + len2: (128, 0, remaining 0) for n = 128, (128, 128, remaining 0)
\* for n = 256 and (128, 128, remaining 256) for n = 512.
C21_FirstRequest ==
  ~active =>
    \A p \in alive, chan \in ValidChans :
      LET r == command(Cur, 3, chan, p, TRUE)
          n == apps[p].app_buf1.len \div 2
          len1 == Min(n, BufCap)
          len2 == Min(n - len1, BufCap)
      IN r.ev.ret = "OK" =>
           /\ r.hw.bufs = hw.bufs \o << [slot |-> adc_buf1, len |-> len1],
                                        [slot |-> adc_buf2, len |-> len2] >>
           /\ r.apps[p].samples_remaining = n - len1 - len2
           /\ r.apps[p].samples_outstanding = len1 + len2
           /\ n = 128 => /\ len1 = 128 /\ len2 = 0
                         /\ r.apps[p].samples_remaining = 0
           /\ n = 256 => /\ len1 = 128 /\ len2 = 128
                         /\ r.apps[p].samples_remaining = 0
           /\ n = 512 => /\ len1 = 128 /\ len2 = 128
                         /\ r.apps[p].samples_remaining = 256

\* an operation has been started on an app buffer of 512 samples
C21_Witness ==
  /\ active /\ mode = SingleBuffer /\ armed = 4 * BufCap
  /\ appid # None /\ CanEnter(appid)
  /\ apps[appid].samples_remaining = 2 * BufCap
  /\ Len(hw.bufs) = 2

\* C22: between entry points of AdcDedicated the active flag is set exactly
\* when the mode is not NoMode.
C22_ActiveIffMode == active <=> mode # NoMode

\* the driver is idle after MaxOps operations and the hardware, which
\* refused to stop, still samples
C22_Witness ==
  ~active /\ mode = NoMode /\ nops = MaxOps /\ hw.mode # "off"

\* The recorded owner can no longer be entered.
DeadOwner == appid # None /\ ~CanEnter(appid)

\* C23: when the recorded owner can no longer be entered, every entry point
\* that tries to enter it returns with the owner record not naming it: a
\* command or allow call made while the driver is idle (the caller becomes
\* the owner), sample_ready during a single or continuous sample, and
\* samples_ready.  A command or allow call made while an operation is
\* active, and sample_ready while none is, do not try to enter the owner.
\* The same holds of a caller that is admitted as owner and whose own grant
\* cannot be entered, in a buffered start, a stop of an active operation
\* and a buffer registration.
C23_ForgetOwner ==
  /\ \A p \in Procs \ alive, chan \in ValidChans, hwok \in BOOLEAN :
       /\ \A num \in {3, 4} :
            LET r == command(Cur, num, chan, p, hwok)
            IN (r.ev.admitted /\ ~active) => r.appid = None
       /\ LET r == command(Cur, 5, chan, p, hwok)
          IN (r.ev.admitted /\ active) => r.appid = None
       /\ \A allow_num \in {0, 1}, slice \in Slices :
            LET r == allow_readwrite(Cur, p, allow_num, slice)
            IN r.ev.admitted => r.appid = None
  /\ DeadOwner =>
    /\ \A p \in alive, num \in CommandNums, chan \in Chans,
          hwok \in BOOLEAN :
         LET r == command(Cur, num, chan, p, hwok)
         IN IF active THEN r = Ret(Cur, "NOMEM")
            ELSE r.appid # appid /\ r.appid = p
    /\ \A p \in alive, allow_num \in {0, 1, 2}, slice \in Slices :
         LET r == allow_readwrite(Cur, p, allow_num, slice)
         IN IF active THEN r = [Ret(Cur, "NOMEM") EXCEPT !.ev.slice = slice]
            ELSE r.appid # appid /\ r.appid = p
    /\ hw.mode \in {"single", "cont"} =>
         \A value \in Samples, stopOk \in BOOLEAN :
           LET r == NextSample(value, stopOk)
           IN IF active /\ mode \in {SingleSample, ContinuousSample}
              THEN r.appid = None
              ELSE r.appid = appid
    /\ CanDeliver =>
         \A provOk \in BOOLEAN, stopOk \in BOOLEAN :
           NextDelivery(provOk, stopOk).appid = None

\* the owner of a continuous sample has crashed; another process is alive
C23_Witness ==
  /\ DeadOwner /\ alive # {}
  /\ active /\ mode = ContinuousSample /\ hw.mode = "cont"

\* The state samples_ready works on once it has deposited the buffer the
\* hardware returned.
AfterDeposit ==
  LET e == Head(hw.bufs)
  IN replace_buffer([Cur EXCEPT !.hw.bufs = Tail(@)], e.slot)

\* C24: in a samples_ready callback of a buffered operation the buffer
\* taken from the pool is never the buffer the hardware just returned: when
\* a request is placed, the buffer handed to the hardware is another one,
\* and the returned buffer is in the pool at the end of the callback, where
\* the copy to the app buffer read it.
C24_NotTheSameBuffer ==
  BufferedDelivery =>
    LET e == Head(hw.bufs)
    IN /\ taken_buffer(AfterDeposit) # e.slot
       /\ \A provOk \in BOOLEAN, stopOk \in BOOLEAN :
            LET r == NextDelivery(provOk, stopOk)
            IN /\ e.slot \in PoolOf(r)
               /\ \A i \in DOMAIN r.hw.bufs : r.hw.bufs[i].slot # e.slot
               /\ provOk => r.ev.src = e.slot

C24_Witness ==
  /\ BufferedDelivery
  /\ Len(NextDelivery(TRUE, TRUE).hw.bufs) = Len(hw.bufs)
  /\ LET bufs == NextDelivery(TRUE, TRUE).hw.bufs
     IN bufs[Len(bufs)].slot = taken_buffer(AfterDeposit)

\* The samples the hardware has been asked for and has not delivered yet.
RECURSIVE Requested(_)
Requested(bufs) ==
  IF bufs = <<>> THEN 0 ELSE Head(bufs).len + Requested(Tail(bufs))

\* State r is in a SingleBuffer operation on an app buffer of n samples
\* whose requests the hardware has all accepted: what is outstanding is
\* what the hardware holds, and the samples copied so far
\* (app_buf_offset / 2), outstanding and remaining add up to n.
SingleInStep(r, n) ==
  /\ r.active /\ r.mode = SingleBuffer
  /\ r.appid # None /\ CanEnter(r.appid)
  /\ r.hw.mode = "hs"
  /\ LET app == r.apps[r.appid]
     IN /\ app.app_buf1.len \div 2 = n
        /\ app.samples_remaining >= 0
        /\ app.samples_outstanding = Requested(r.hw.bufs)
        /\ app.app_buf_offset
             = 2 * (n - app.samples_outstanding - app.samples_remaining)

ContinuousOwned ==
  /\ ~panicked
  /\ active /\ mode = ContinuousBuffer
  /\ appid # None /\ CanEnter(appid)

\* C26: a ContinuousBuffer operation starts on the first app buffer; every
\* upcall reports the app buffer in use and is the moment using_app_buf1
\* flips, and nothing else flips it: a callback without an upcall, a command
\* and an allow call leave it alone.  So using_app_buf1 is TRUE exactly
\* after an even number of upcalls, and the k-th upcall reports app_buf1
\* for odd k and app_buf2 for even k.
C26_Alternate ==
  /\ ~active =>
       \A p \in alive, chan \in ValidChans :
         LET r == command(Cur, 4, chan, p, TRUE)
         IN r.ev.ret = "OK" =>
              r.apps[p].using_app_buf1 /\ r.ev.upcall = NoUpcall
  /\ ContinuousOwned =>
       LET use1 == apps[appid].using_app_buf1
       IN /\ opUpcalls < MaxUpcalls => (use1 <=> opUpcalls % 2 = 0)
          /\ (hw.mode = "hs" /\ hw.bufs # <<>>) =>
               \A provOk \in BOOLEAN, stopOk \in BOOLEAN :
                 LET r == NextDelivery(provOk, stopOk)
                 IN IF r.ev.upcall # NoUpcall
                    THEN /\ r.ev.upcall[1] = appid
                         /\ r.ev.upcall[4] = IF use1
                                             THEN apps[appid].app_buf1.ptr
                                             ELSE apps[appid].app_buf2.ptr
                         /\ r.apps[appid].using_app_buf1 = ~use1
                    ELSE r.apps[appid].using_app_buf1 = use1
          /\ \A p \in alive, num \in CommandNums, chan \in Chans,
                hwok \in BOOLEAN :
               LET r == command(Cur, num, chan, p, hwok)
               IN /\ r.ev.upcall = NoUpcall
                  /\ r.apps[appid].using_app_buf1 = use1
          /\ \A p \in alive, allow_num \in {0, 1, 2}, slice \in Slices :
               LET r == allow_readwrite(Cur, p, allow_num, slice)
               IN /\ r.ev.upcall = NoUpcall
                  /\ r.apps[appid].using_app_buf1 = use1

\* the second upcall of a continuous operation is about to report the
\* second app buffer
C26_Witness ==
  /\ ContinuousOwned /\ opUpcalls = 1
  /\ ~apps[appid].using_app_buf1
  /\ hw.mode = "hs" /\ hw.bufs # <<>>
  /\ NextDelivery(TRUE, TRUE).ev.upcall # NoUpcall
  /\ apps[appid].app_buf1.ptr # apps[appid].app_buf2.ptr

\* C27: in a ContinuousBuffer operation whose requests the hardware
\* accepts, next_samples_outstanding counts the samples already requested
\* for the next app buffer, the request made with the second kernel buffer
\* at the start included: when a callback swaps the app buffers it equals
\* what the hardware still holds, and after the swap samples_outstanding is
\* what the hardware holds for the new app buffer and samples_remaining the
\* rest of that buffer's sample length.
C27_NextOutstanding ==
  /\ ~active =>
       \A p \in alive, chan \in ValidChans :
         LET r == command(Cur, 4, chan, p, TRUE)
         IN (r.ev.ret = "OK" /\ apps[p].app_buf1.len \div 2 <= BufCap) =>
              r.apps[p].next_samples_outstanding
                = r.hw.bufs[Len(r.hw.bufs)].len
  /\ (ContinuousOwned /\ CanDeliver) =>
       \A stopOk \in BOOLEAN :
         LET r == NextDelivery(TRUE, stopOk)
             app == r.apps[appid]
             new_buf == IF app.using_app_buf1 THEN app.app_buf1
                        ELSE app.app_buf2
             for_next == IF app.samples_remaining = 0
                         THEN app.next_samples_outstanding ELSE 0
         IN r.ev.upcall # NoUpcall =>
              /\ apps[appid].next_samples_outstanding
                   = Requested(Tail(hw.bufs))
              /\ app.samples_outstanding + for_next = Requested(r.hw.bufs)
              /\ app.samples_outstanding + app.samples_remaining
                   = new_buf.len \div 2

\* The samples the counters of app say are requested from the hardware:
\* those outstanding for the app buffer in use and, once nothing remains to
\* be requested for it, those requested for the next app buffer.
Counted(app) ==
  app.samples_outstanding
  + (IF app.samples_remaining = 0 THEN app.next_samples_outstanding ELSE 0)

\* C28: a request the hardware rejects leaves its kernel buffers in the pool
\* and is not counted by the owner's counters: a rejected start leaves the
\* pool as it was and the counters zero, and a callback whose hand-off of a
\* buffer is rejected leaves that buffer in the pool and the counters short,
\* by the length asked for, of what they are when the hand-off is accepted.
C28_RejectionUnwinds ==
  /\ ~active =>
       \A p \in alive, num \in {3, 4}, chan \in ValidChans :
         LET r == command(Cur, num, chan, p, FALSE)
         IN r.ev.ret = "HWERR" =>
              /\ r.hw = hw
              /\ PoolOf(r) = PoolOf(Cur)
              /\ r.apps[p].samples_remaining = 0
              /\ r.apps[p].samples_outstanding = 0
  /\ BufferedDelivery =>
       \A stopOk \in BOOLEAN :
         LET ok == NextDelivery(TRUE, stopOk)
             r == NextDelivery(FALSE, stopOk)
         IN Len(ok.hw.bufs) = Len(hw.bufs) =>
              LET req == ok.hw.bufs[Len(ok.hw.bufs)]
              IN /\ r.hw.bufs = Tail(hw.bufs)
                 /\ req.slot \in PoolOf(r)
                 /\ Counted(ok.apps[appid]) - Counted(r.apps[appid])
                      = req.len

\* In state r, reached by a handler, a command of any live process is
\* admitted and makes that process the owner.
AnyoneAdmitted(r) ==
  \A q \in alive, num \in CommandNums, chan \in Chans, hwok \in BOOLEAN :
    LET r2 == command([r EXCEPT !.ev = Ev], num, chan, q, hwok)
    IN r2.ev.admitted /\ r2.appid = q

\* C29: while an operation is active, a command or an allow call of a
\* process that is not the recorded owner returns NOMEM and changes
\* nothing, whether the owner is alive or not; when the owner is not, the
\* next callback of the hardware for the operation (sample_ready for a
\* single or continuous sample, samples_ready for a buffered one) schedules
\* no upcall and leaves the driver idle with no owner, and a command of any
\* live process is then admitted and makes it the owner.
C29_CrashedOwner ==
  /\ (~panicked /\ active /\ appid # None) =>
       \A p \in alive \ {appid} :
         /\ \A num \in CommandNums, chan \in Chans, hwok \in BOOLEAN :
              command(Cur, num, chan, p, hwok) = Ret(Cur, "NOMEM")
         /\ \A allow_num \in {0, 1, 2}, slice \in Slices :
              allow_readwrite(Cur, p, allow_num, slice)
                = [Ret(Cur, "NOMEM") EXCEPT !.ev.slice = slice]
  /\ (~panicked /\ active /\ DeadOwner) =>
       /\ mode \in {SingleSample, ContinuousSample} => hw.mode # "hs"
       /\ mode \in {SingleBuffer, ContinuousBuffer} =>
            hw.mode \notin {"single", "cont"}
       /\ (mode \in {SingleSample, ContinuousSample}
           /\ hw.mode \in {"single", "cont"}) =>
            \A value \in Samples, stopOk \in BOOLEAN :
              LET r == NextSample(value, stopOk)
              IN /\ IsIdle(r) /\ r.appid = None
                 /\ r.ev.upcall = NoUpcall
                 /\ AnyoneAdmitted(r)
       /\ (mode \in {SingleBuffer, ContinuousBuffer} /\ CanDeliver) =>
            \A provOk \in BOOLEAN, stopOk \in BOOLEAN :
              LET r == NextDelivery(provOk, stopOk)
              IN /\ IsIdle(r) /\ r.appid = None
                 /\ r.ev.upcall = NoUpcall
                 /\ AnyoneAdmitted(r)

\* the owner of a running buffered operation has crashed, the other process
\* is alive, and the hardware is about to hand back a buffer
C29_Witness ==
  /\ active /\ DeadOwner /\ alive # {}
  /\ mode = SingleBuffer /\ CanDeliver

\* State r is state s after the deposit of buf: buf is in the last
\* position, the buffer found there has moved to position 2 if that was
\* empty and to position 1 otherwise, and the pool holds what it held
\* and buf.
Deposited(s, buf, r) ==
  /\ r.adc_buf3 = buf
  /\ IF s.adc_buf3 = None
     THEN r.adc_buf2 = s.adc_buf2 /\ r.adc_buf1 = s.adc_buf1
     ELSE IF s.adc_buf2 = None
          THEN r.adc_buf2 = s.adc_buf3 /\ r.adc_buf1 = s.adc_buf1
          ELSE r.adc_buf1 = s.adc_buf3 /\ r.adc_buf2 = s.adc_buf2
  /\ PoolOf(r) = PoolOf(s) \cup {buf}
  /\ r.lost = s.lost

\* C30: replace_buffer puts the buffer it is given in position 3; a buffer
\* found there goes to position 2 if that is empty and else to position 1;
\* no buffer the pool held is overwritten or dropped.  Checked for every
\* buffer that is not in the pool, and for a second one deposited right
\* after it.
C30_Deposit ==
  \A buf \in Slots \ PoolOf(Cur) :
    LET r == replace_buffer(Cur, buf)
    IN /\ Deposited(Cur, buf, r)
       /\ \A buf2 \in Slots \ PoolOf(r) :
            Deposited(r, buf2, replace_buffer(r, buf2))

\* positions 2 and 3 are occupied and the hardware holds the third buffer
C30_Witness ==
  /\ adc_buf3 # None /\ adc_buf2 # None /\ adc_buf1 = None
  /\ hw.bufs # <<>>

\* ------------------------------------------ take_and_map_buffer on its own
\* The buffer in pool position i of state s.
PoolAt(s, i) ==
  IF i = 1 THEN s.adc_buf1 ELSE IF i = 2 THEN s.adc_buf2 ELSE s.adc_buf3

\* Every way the three kernel buffers can be spread over the three TakeCells,
\* the ones in no cell being with the hardware.
PoolShapes ==
  { q \in [1..3 -> Slots \cup {None}] :
      \A i, j \in 1..3 : (i # j /\ q[i] # None) => q[i] # q[j] }

RECURSIVE Lent(_, _)
Lent(q, n) ==
  IF n > 3 THEN <<>>
  ELSE (IF \E i \in 1..3 : q[i] = n THEN <<>>
        ELSE << [slot |-> n, len |-> BufCap] >>) \o Lent(q, n + 1)

RemainingSizes == {1, 44, BufCap, 300}

\* A buffered operation of process 1 in progress, on any pool.
InitP ==
  /\ active = TRUE
  /\ mode = SingleBuffer
  /\ appid = 1
  /\ channel = 0
  /\ \E q \in PoolShapes :
       /\ adc_buf1 = q[1] /\ adc_buf2 = q[2] /\ adc_buf3 = q[3]
       /\ hw = [mode |-> "hs", bufs |-> Lent(q, 1)]
  /\ \E n \in RemainingSizes :
       apps = [p \in Procs |->
                 IF p = 1 THEN [AppDefault EXCEPT !.samples_remaining = n]
                 ELSE AppDefault]
  /\ lost = {}
  /\ wrapping = FALSE
  /\ panicked = FALSE
  /\ armed = 0
  /\ opUpcalls = 0
  /\ nops = 1
  /\ nallows = 0
  /\ alive = Procs
  /\ current_app = None
  /\ vapps = [p \in Procs |-> AppSysDefault]
  /\ vhw = [c \in 0..(NumDrivers - 1) |-> 0]

\* take_and_map_buffer with the closure that requests more samples
WithdrawMore ==
  /\ \E provOk \in BOOLEAN : Finish(request_more(Cur, appid, provOk))
  /\ UNCHANGED nallows

\* take_and_map_buffer with the closure that requests samples for the next
\* app buffer
WithdrawNext ==
  /\ \E provOk \in BOOLEAN, n \in RemainingSizes :
       Finish(request_next(Cur, appid, n, provOk))
  /\ UNCHANGED nallows

NextP == WithdrawMore \/ WithdrawNext
SpecP == InitP /\ [][NextP]_vars

\* C31: take_and_map_buffer takes the buffer of the lowest occupied position
\* of the pool, empties that position and nothing else, and hands that
\* buffer to its closure; on an empty pool it takes nothing and the closure
\* does not run, so no request goes to the hardware and no counter changes.
C31_Withdraw ==
  appid # None =>
    LET occupied == {i \in 1..3 : PoolAt(Cur, i) # None}
    IN IF occupied = {}
       THEN \A provOk \in BOOLEAN :
              /\ request_more(Cur, appid, provOk) = Cur
              /\ \A n \in RemainingSizes :
                   request_next(Cur, appid, n, provOk) = Cur
       ELSE LET pos == CHOOSE i \in occupied : \A j \in occupied : i <= j
                r == take_buffer(Cur)
                more == request_more(Cur, appid, TRUE)
            IN /\ taken_buffer(Cur) = PoolAt(Cur, pos)
               /\ PoolAt(r, pos) = None
               /\ \A j \in 1..3 \ {pos} : PoolAt(r, j) = PoolAt(Cur, j)
               /\ r.hw = hw /\ r.apps = apps
               /\ \A j \in 1..3 : PoolAt(more, j) = PoolAt(r, j)
               /\ Len(more.hw.bufs) = Len(hw.bufs) + 1
               /\ more.hw.bufs[Len(more.hw.bufs)].slot = PoolAt(Cur, pos)
               /\ \A n \in RemainingSizes :
                    LET next == request_next(Cur, appid, n, TRUE)
                    IN /\ \A j \in 1..3 : PoolAt(next, j) = PoolAt(r, j)
                       /\ next.hw.bufs
                            = Append(hw.bufs, [slot |-> PoolAt(Cur, pos),
                                               len |-> Min(n, BufCap)])

\* the last buffer of the pool has been withdrawn and handed over with a
\* request for 44 samples: the pool is empty
C31_Witness ==
  /\ adc_buf1 = None /\ adc_buf2 = None /\ adc_buf3 = None
  /\ Len(hw.bufs) = 3
  /\ hw.bufs[3].len = 44

\* C32: every sample_ready of AdcVirtualized empties current_app, whether
\* or not the grant of the process it named can be entered; if it can, the
\* pending flag of that process is cleared and one upcall is scheduled for
\* it; if it cannot, no upcall is scheduled.  Either way a single-sample
\* command that any process makes next calls the channel driver at once.
C32_Completion ==
  \A c \in ValidDrivers, value \in Samples :
    vhw[c] > 0 =>
      LET r == vsample_ready([VCur EXCEPT !.vhw[c] = @ - 1], value)
      IN /\ current_app # None
         /\ r.current_app = None
         /\ IF CanEnter(current_app)
            THEN /\ ~r.vapps[current_app].pending_command
                 /\ r.ev.upcall # NoUpcall
                 /\ r.ev.upcall[1] = current_app
                 /\ r.ev.upcall[4] = value
            ELSE r.ev.upcall = NoUpcall /\ r.vapps = vapps
         /\ \A q \in alive, chan \in ValidDrivers, hwok \in BOOLEAN :
              LET r2 == vcommand([r EXCEPT !.ev = VEv], 1, chan, q, hwok)
              IN /\ r2.ev.dispatched /\ r2.ev.idle
                 /\ hwok => (r2.current_app = q /\ r2.ev.ret = "OK")

\* the process whose request is in flight has crashed, another is alive
C32_Witness ==
  /\ current_app # None /\ ~CanEnter(current_app)
  /\ alive # {}
  /\ \E c \in ValidDrivers : vhw[c] > 0

\* C33: with no request in flight, a single-sample command on a valid
\* channel of a process whose grant can be entered calls the channel driver
\* at once, with the caller as current_app; if the driver accepts, the
\* caller stays current_app and the command succeeds; if the driver rejects,
\* current_app is empty again, the driver's error is returned, nothing else
\* has changed, and the next such command calls the driver again.
C33_DispatchOrUnbind ==
  current_app = None =>
    \A p \in alive, chan \in ValidDrivers :
      LET ok == vcommand(VCur, 1, chan, p, TRUE)
          rej == vcommand(VCur, 1, chan, p, FALSE)
      IN /\ ok.ev.dispatched /\ ok.ev.idle
         /\ ok.ev.ret = "OK"
         /\ ok.current_app = p
         /\ ok.vhw = [vhw EXCEPT ![chan] = @ + 1]
         /\ ok.vapps = vapps
         /\ rej.ev.dispatched /\ rej.ev.idle
         /\ rej.ev.ret = "HWERR"
         /\ rej.current_app = None
         /\ rej.vhw = vhw /\ rej.vapps = vapps
         /\ \A q \in alive, chan2 \in ValidDrivers :
              LET r2 == vcommand([rej EXCEPT !.ev = VEv], 1, chan2, q, TRUE)
              IN r2.ev.dispatched /\ r2.current_app = q

\* no request is in flight after one has completed, and a process with a
\* request still stored makes a command that the driver rejects
C33_Witness ==
  /\ current_app = None
  /\ \E p \in alive :
       /\ vapps[p].pending_command
       /\ vcommand(VCur, 1, 0, p, FALSE).ev.ret = "HWERR"

\* C34: the sample counters of the owner never underflow: a buffered
\* operation's samples_ready is handed at most samples_outstanding samples,
\* no subtraction or addition it makes on the counters overflows, and when
\* it swaps the app buffers of a ContinuousBuffer operation
\* next_samples_outstanding is at most the sample length of the app buffer
\* swapped in.
C34_NoUnderflow ==
  BufferedDelivery =>
    \A provOk \in BOOLEAN, stopOk \in BOOLEAN :
      LET r == NextDelivery(provOk, stopOk)
          app == apps[appid]
          next_buf == IF app.using_app_buf1 THEN app.app_buf2
                      ELSE app.app_buf1
      IN /\ Head(hw.bufs).len <= app.samples_outstanding
         /\ ~r.ovf
         /\ (mode = ContinuousBuffer /\ r.ev.upcall # NoUpcall) =>
              app.next_samples_outstanding <= next_buf.len \div 2

\* C35: while a SingleBuffer operation of a live owner is in progress, the
\* samples copied so far (app_buf_offset / 2), those outstanding and those
\* remaining add up to the sample length the app buffer had when the
\* operation was started.
C35_SamplesAddUp ==
  (active /\ mode = SingleBuffer /\ appid # None /\ CanEnter(appid)) =>
    LET app == apps[appid]
    IN /\ app.app_buf_offset % 2 = 0
       /\ app.app_buf_offset \div 2 + app.samples_outstanding
            + app.samples_remaining = armed

\* part of a 300-sample buffer is copied, part is still outstanding
C35_Witness ==
  /\ active /\ mode = SingleBuffer /\ appid # None /\ CanEnter(appid)
  /\ armed = 300
  /\ apps[appid].app_buf_offset = 2 * BufCap
  /\ apps[appid].samples_outstanding = 300 - BufCap

\* C36: in a buffered operation the write offset stays within the app
\* buffer in use, as sized at the start of the operation: with the samples
\* a samples_ready delivers, the offset does not pass the end of that
\* buffer, and every one of those samples is copied into it.
C36_OffsetInBuffer ==
  BufferedDelivery =>
    \A provOk \in BOOLEAN, stopOk \in BOOLEAN :
      LET r == NextDelivery(provOk, stopOk)
          length == Head(hw.bufs).len
          sized == IF mode = SingleBuffer THEN armed
                   ELSE CurrentAppBuf.len \div 2
      IN /\ apps[appid].app_buf_offset \div 2 + length <= sized
         /\ CurrentAppBuf.len \div 2 = sized => r.ev.copied = length

\* C37: the pool is filled from the back: adc_buf1 is occupied only if
\* adc_buf2 is, and adc_buf2 only if adc_buf3 is.  So a buffered start that
\* takes adc_buf1 always finds adc_buf2 occupied and drops no buffer, and a
\* buffered start gets as far as its request to the hardware only when all
\* three kernel buffers are in the pool.
C37_BackFilled ==
  /\ adc_buf1 # None => adc_buf2 # None
  /\ adc_buf2 # None => adc_buf3 # None
  /\ ~active =>
       \A p \in alive, num \in {3, 4}, chan \in ValidChans, hwok \in BOOLEAN :
         LET r == command(Cur, num, chan, p, hwok)
         IN /\ r.lost = lost
            /\ r.ev.ret \in {"OK", "HWERR"} => AllInPool(Cur)
            /\ r.ev.ret = "OK" => (r.active /\ Len(r.hw.bufs) = 2)

\* the driver is idle with a buffer still on loan, and a buffered start
\* finds adc_buf1 empty
C37_Witness ==
  /\ ~active /\ adc_buf1 = None /\ adc_buf3 # None
  /\ hw.bufs # <<>>
  /\ \E p \in alive, chan \in ValidChans :
       command(Cur, 3, chan, p, TRUE).ev.ret = "BUSY"

\* C38: in a ContinuousBuffer operation of a live owner, with hardware that
\* accepts every buffer, every samples_ready hands one buffer of the pool to
\* the hardware, which then holds one or two and never more; the callback
\* completes without a counter overflowing, the operation goes on, and
\* either an upcall is scheduled or the samples still to come for the app
\* buffer in use have gone down by those delivered, so that upcalls keep
\* coming until the operation is stopped.
C38_KeepsGoing ==
  (ContinuousOwned /\ CanDeliver) =>
    \A stopOk \in BOOLEAN :
      LET r == NextDelivery(TRUE, stopOk)
          app == apps[appid]
          rapp == r.apps[appid]
          length == Head(hw.bufs).len
      IN /\ Len(r.hw.bufs) = Len(hw.bufs)
         /\ Len(r.hw.bufs) \in {1, 2}
         /\ r.active /\ r.mode = ContinuousBuffer
         /\ ~r.ovf
         /\ length <= app.samples_outstanding
         /\ \/ r.ev.upcall # NoUpcall
            \/ rapp.samples_outstanding + rapp.samples_remaining
                 = app.samples_outstanding + app.samples_remaining - length

\* C39: a command or an allow call that is admitted makes its caller the
\* owner whatever its number: the queries 0, 101 and 102, an unknown
\* command number and an unknown allow number do so too.  While an owner is
\* recorded whose grant can be entered, every command and every allow call
\* of another process returns NOMEM and changes nothing.
C39_QueriesBind ==
  /\ \A p \in alive :
       /\ \A num \in {0, 101, 102, 7}, chan \in Chans, hwok \in BOOLEAN :
            LET r == command(Cur, num, chan, p, hwok)
            IN /\ r.ev.admitted => r.appid = p
               /\ r.ev.ret # "NOMEM" => r.ev.admitted
               /\ \A q \in alive \ {p} :
                    r.ev.admitted =>
                      \A num2 \in CommandNums, chan2 \in Chans :
                        command([r EXCEPT !.ev = Ev], num2, chan2, q, hwok).ev.ret
                          = "NOMEM"
       /\ \A slice \in Slices :
            LET r == allow_readwrite(Cur, p, 2, slice)
            IN /\ r.ev.admitted => (r.appid = p /\ r.ev.ret = "NOSUPPORT")
               /\ r.ev.ret # "NOMEM" => r.ev.admitted
  /\ (~panicked /\ appid # None /\ CanEnter(appid)) =>
       \A q \in alive \ {appid} :
         /\ \A num \in CommandNums, chan \in Chans, hwok \in BOOLEAN :
              command(Cur, num, chan, q, hwok) = Ret(Cur, "NOMEM")
         /\ \A allow_num \in {0, 1, 2}, slice \in Slices :
              allow_readwrite(Cur, q, allow_num, slice)
                = [Ret(Cur, "NOMEM") EXCEPT !.ev.slice = slice]

\* an owner is recorded although no operation was started and no buffer
\* registered
C39_Witness ==
  /\ appid # None /\ CanEnter(appid) /\ ~active
  /\ nops = 0 /\ nallows = 0
  /\ alive = Procs

\* State r, which a handler yields from the current state, has not given
\* the operation in progress to another owner.
SameOwner(r) == (active /\ r.active) => r.appid = appid

\* C40: an operation is active only with an owner recorded; the command
\* that starts it records its caller; while it is active no command, allow
\* call or callback puts another process in the owner record; commands and
\* allow calls schedule no upcall; and an upcall that sample_ready or
\* samples_ready schedules is for the recorded owner of an active
\* operation, never scheduled while the driver is idle.
C40_UpcallToStarter ==
  /\ active => appid # None
  /\ \A p \in alive :
       /\ \A num \in CommandNums, chan \in Chans, hwok \in BOOLEAN :
            LET r == command(Cur, num, chan, p, hwok)
            IN /\ r.ev.upcall = NoUpcall
               /\ (~active /\ r.active) => r.appid = p
               /\ SameOwner(r)
       /\ \A allow_num \in {0, 1, 2}, slice \in Slices :
            LET r == allow_readwrite(Cur, p, allow_num, slice)
            IN /\ r.ev.upcall = NoUpcall
               /\ r.active = active
               /\ SameOwner(r)
  /\ (~panicked /\ hw.mode \in {"single", "cont"}) =>
       \A value \in Samples, stopOk \in BOOLEAN :
         LET r == NextSample(value, stopOk)
         IN /\ r.ev.upcall # NoUpcall => (active /\ r.ev.upcall[1] = appid)
            /\ SameOwner(r)
            /\ ~active => ~r.active
  /\ CanDeliver =>
       \A provOk \in BOOLEAN, stopOk \in BOOLEAN :
         LET r == NextDelivery(provOk, stopOk)
         IN /\ r.ev.upcall # NoUpcall => (active /\ r.ev.upcall[1] = appid)
            /\ SameOwner(r)
            /\ ~active => ~r.active

\* the second process owns a continuous operation whose next sample brings
\* it an upcall, the first process being alive
C40_Witness ==
  /\ active /\ mode = ContinuousSample /\ appid = 2
  /\ alive = Procs
  /\ hw.mode = "cont"
  /\ \E value \in Samples : NextSample(value, TRUE).ev.upcall[1] = 2

====
